---- MODULE Spec2Model ----
(***************************************************************************)
(* git-sync: the per-repository synchronisation pipeline of                *)
(* SyncOrchestrator.sync_repository (src/git_sync/core/sync.py) over the   *)
(* git primitives of Repository (src/git_sync/core/repository.py).         *)
(*                                                                         *)
(* A repository is a map from ref names to commit ids; 0 stands for "no    *)
(* such ref".  Commits form the tree Parent(c) = c \div 2 rooted at 1, so  *)
(* that ancestors, fast-forwards and diverged tips all occur.  The source  *)
(* and the target are remote repositories; the working clone is the bare   *)
(* copy the engine works in.  Every call of an external git command is one *)
(* step, so that other writers of the target can act between the engine's  *)
(* fetch and its pushes.  rev-parse, merge-base, branch and tag read the   *)
(* local clone and answer from its refs unless their command fails (the    *)
(* switch flaky); clone, fetch, remote and push reach outside and may      *)
(* fail.                                                                   *)
(*                                                                         *)
(* Spec is one call of sync_repository on its own.  BatchSpec is the sync  *)
(* command (src/git_sync/cli.py) around SyncOrchestrator.sync_all: the     *)
(* selection of the configurations, the cleanup of stale mirrors, one call *)
(* of sync_repository per selected configuration, made of the same steps,  *)
(* the summary and the exit status.  QuerySpec is one call in which the    *)
(* local queries can fail.  MovedSpec is one call for a repository whose   *)
(* mirror entry was cloned from a former source URL.  HistorySpec is the   *)
(* sync history file of HistoryManager (src/git_sync/web/history.py),      *)
(* ConfigSpec the configuration directory read and written by ConfigLoader *)
(* (src/git_sync/config/loader.py), and AddressingSpec the mapping between *)
(* repository names and mirror cache entries.                              *)
(***************************************************************************)
EXTENDS Integers, Sequences, FiniteSets, TLC

\* ------------------------------------------------------------------ bounds
MaxCommit == 3
MaxBranchList == 2
MaxEnvSteps == 1
MaxNames == 2
MaxRuns == 2
MaxClock == 2
MaxRecords == 2
MaxAdds == 4
MaxNameLen == 3

\* ------------------------------------------------------------ repositories
NoHash == 0
NoError == "<none>"

Commits == 1..MaxCommit
Hashes == 0..MaxCommit
Branches == {"dev", "main"}
Tags == {"v1"}
TagHashes == {0, 1, 2}

\* `git branch` and `git tag` list refs in name order.
BranchOrder == <<"dev", "main">>
TagOrder == <<"v1">>

Parent(c) == c \div 2

RECURSIVE Reaches(_, _)
\* a is reachable from b by following parents (a = b included).
Reaches(a, b) ==
    IF b = NoHash \/ a = NoHash THEN FALSE
    ELSE IF a = b THEN TRUE
    ELSE Reaches(a, Parent(b))

Range(q) == {q[n] : n \in DOMAIN q}

NoRefs == [heads |-> [b \in Branches |-> NoHash], tags |-> [t \in Tags |-> NoHash]]

NoClone == [exists |-> FALSE, heads |-> NoRefs.heads, tags |-> NoRefs.tags,
            hasTarget |-> FALSE, tracking |-> NoRefs.heads]

\* The configured repository names, and the names that can be asked for.
ConfigNames == {"a", "b"}
RequestNames == {"a", "b", "x"}

\* A name in the mirror-cache directory: a stem and a suffix.
DotGit == ".git"
EntryNames == {<<"a", DotGit>>, <<"b", DotGit>>, <<"old", DotGit>>, <<"notes", "">>}
NoEntry == [kind |-> "absent", heads |-> NoRefs.heads, tags |-> NoRefs.tags,
            origin |-> "none", hasTarget |-> FALSE, tracking |-> NoRefs.heads]
NoSummary == [total |-> 0, successful |-> 0, failed |-> 0, results |-> <<>>,
              returned |-> FALSE]
NoExit == 0 - 1

\* The clock is read in half seconds.
TicksPerSecond == 2
\* The name of a temp directory: the repository's name and a timestamp.
NoName == <<"none", 0>>

\* ----------------------------------------------------------------- messages
NotFoundReason == "not found in source"
DivergedReason == "diverged history (would require force push)"
RejectedMsg == "! [rejected]"
TransportMsg == "fatal: Could not read from remote repository."
RaisedMsg == "push raised"
KeyMsg == "Key not found"
MkdirMsg == "mkdir failed"
CloneMsg == "Failed to clone repository"
CopyMsg == "copytree failed"
RemoteMsg == "Failed to add remote"
FetchMsg == "Failed to fetch"
QueryRaisedMsg == "[Errno 2] No such file or directory"

VARIABLES
    dry_run,          \* SyncOrchestrator.dry_run
    settings,         \* config.sync: enable_mirror_cache, cleanup_after_sync
    repo_config,      \* RepositoryConfig: sync_branches, sync_tags
    src,              \* the source repository's refs
    tgt,              \* the target repository's refs
    mirror,           \* the mirror-cache entry of this repository
    clone,            \* the working clone in the temp directory
    temp_dir,         \* "none", "present", "removed" or "rm_failed"
    pc,               \* position in sync_repository
    branches_to_sync, \* the candidate branch list
    tags,             \* the tag list of the tag stage
    idx,              \* loop index (1-based) in the current loop
    result,           \* the SyncResult under construction
    pushLog,          \* every push call issued in this run
    tgtAtStart,       \* the target's refs when this run started
    fetched,          \* the target's heads as fetched in this run
    others,           \* whether other writers push to the target meanwhile
    envSteps,         \* updates of the target by other writers so far
    aborted_at,       \* the stage whose failure reached the outer handler
    ancestryLog,      \* loop indexes at which is_ancestor was called
    repositories,     \* config.repositories: the configured RepositoryConfigs
    requested,        \* the names given to the sync command (-r), <<>> if none
    world,            \* every configured repository's source and target refs
    mirror_cache,     \* the entries of the mirror-cache directory
    bpc,              \* position in the sync command and sync_all
    repo_configs,     \* sync_all's selected configurations
    bi,               \* loop index (1-based) of sync_all's loop
    results,          \* sync_all's results list
    summary,          \* the SyncSummary returned by sync_all
    exit_code,        \* the sync command's exit status, NoExit while it runs
    escaped,          \* the exception that left the command, "none" if none
    invocations,      \* sync commands started so far
    repeat,           \* whether the command is run again after it exits
    gc_failed,        \* the stale mirrors whose removal failed in the last cleanup
    gc_calls,         \* the name lists _cleanup_stale_mirrors was called with
    now,              \* the clock when it was last read
    temp_name,        \* the name of the temp dir _create_temp_dir returned last
    temp_used,        \* the names _create_temp_dir has returned so far
    leftover,         \* the temp dirs left on disk with a source.git in them
    mirror_op,        \* what _ensure_mirror did in this call: "clone", "fetch", "none"
    flaky,            \* whether git's local queries can fail
    queryLog,         \* the queries made (enumerations at index 0) and how they ended
    prev,             \* results and repository states of the previous command
    history_file,     \* sync_history.json: the list of records, newest first
    hclock,           \* the records created so far (the clock of their timestamps)
    hcall,            \* the last call of the history manager and what it returned
    config_dir,       \* the configuration directory: its YAML files in sorted order
    cfg,              \* ConfigManager._config without its repositories; not loaded if None
    ccall,            \* the last call that wrote the configuration and what it returned
    cache_names,      \* the names of two configured repositories, character by character
    cache_dirs,       \* the mirror paths _get_mirror_path gave, each with its name
    existing_mirrors, \* the names _cleanup_stale_mirrors derived from the directory
    listed            \* whether _cleanup_stale_mirrors has listed the directory

batch == <<repositories, requested, world, mirror_cache, bpc, repo_configs, bi,
           results, summary, exit_code, escaped, invocations, repeat, gc_failed,
           gc_calls, prev>>

\* What the sync engine never writes: the web application's history.
history == <<history_file, hclock, hcall>>

\* The configuration files and what ConfigManager holds of them.
disk == <<config_dir, cfg, ccall>>

\* The mirror-cache directory by the names of its paths.
addressing == <<cache_names, cache_dirs, existing_mirrors, listed>>

store == <<history, disk, addressing>>

vars == <<dry_run, settings, repo_config, src, others, tgt, mirror, clone,
          temp_dir, pc, branches_to_sync, tags, idx, result, pushLog,
          tgtAtStart, fetched, envSteps, aborted_at, ancestryLog, batch,
          now, temp_name, temp_used, leftover, mirror_op, flaky, queryLog, store>>

\* What _create_temp_dir alone changes.
clock == <<now, temp_name, temp_used>>

config == <<dry_run, settings, repo_config, src, others, flaky, store>>

\* ------------------------------------------------------------------ results
NewResult ==
    [success |-> FALSE, branches_synced |-> <<>>, branches_skipped |-> <<>>,
     tags_synced |-> <<>>, tags_failed |-> <<>>, error |-> NoError]

BranchLists ==
    UNION {[1..n -> Branches] : n \in 0..MaxBranchList}

\* One repository pair: main is one commit behind at the target, dev and the
\* tag are missing there.  The slices below vary one aspect of it each.
PlainSource == [heads |-> [b \in Branches |-> IF b = "main" THEN 2 ELSE 3],
                tags |-> [t \in Tags |-> 1]]
PlainTarget == [heads |-> [b \in Branches |-> IF b = "main" THEN 1 ELSE NoHash],
                tags |-> [t \in Tags |-> NoHash]]
\* A mirror entry: its refs, its origin remote ("source" when that is the
\* source URL configured now, "former" when the configuration named another
\* URL at the time of the clone), and whether it has a remote named target
\* and remote-tracking refs of it.
NoMirror == [exists |-> FALSE, heads |-> NoRefs.heads, tags |-> NoRefs.tags,
             origin |-> "none", hasTarget |-> FALSE, tracking |-> NoRefs.heads]

\* The repository behind the URL the configuration named before a change of
\* the source URL.
FormerSource == [heads |-> [b \in Branches |-> IF b = "main" THEN 1 ELSE NoHash],
                 tags |-> [t \in Tags |-> 2]]

\* `git clone --mirror <source url> <mirror path>` (repository.py 103-109)
\* of a source with the refs r.
MirrorClone(r) ==
    [exists |-> TRUE, heads |-> r.heads, tags |-> r.tags,
     origin |-> "source", hasTarget |-> FALSE, tracking |-> NoRefs.heads]
\* SyncSettings' defaults (schema.py 88-91) and RepositoryConfig's (schema.py 45-47).
DefaultSettings == [enable_mirror_cache |-> TRUE, cleanup_after_sync |-> TRUE]
DefaultRepoConfig == [sync_branches |-> <<>>, sync_tags |-> TRUE]

\* Every branch state of source and target, under every candidate list; no tags.
InitBranches ==
    /\ others = FALSE
    /\ settings = DefaultSettings
    /\ repo_config \in [sync_branches : BranchLists, sync_tags : {TRUE}]
    /\ src \in [heads : [Branches -> Hashes], tags : {NoRefs.tags}]
    /\ tgt \in [heads : [Branches -> Hashes], tags : {NoRefs.tags}]
    /\ mirror = NoMirror

\* Every tag state of source and target, with and without tag sync, under
\* every candidate list, dev being in the source or not.
InitTags ==
    /\ others = FALSE
    /\ settings = DefaultSettings
    /\ repo_config \in [sync_branches : BranchLists, sync_tags : BOOLEAN]
    /\ src \in [heads : {PlainSource.heads, [PlainSource.heads EXCEPT !["dev"] = NoHash]},
                tags : [Tags -> TagHashes]]
    /\ tgt \in [heads : {PlainTarget.heads}, tags : [Tags -> TagHashes]]
    /\ mirror = NoMirror

\* Every sync setting, with and without a mirror entry left by an earlier sync.
InitSettings ==
    /\ others = FALSE
    /\ settings \in [enable_mirror_cache : BOOLEAN, cleanup_after_sync : BOOLEAN]
    /\ repo_config = DefaultRepoConfig
    /\ src = PlainSource
    /\ tgt = PlainTarget
    /\ mirror \in {NoMirror, MirrorClone([heads |-> PlainTarget.heads, tags |-> NoRefs.tags])}

\* Every branch state of source and target and a tag to create, all branches
\* being candidates, while other writers push to the target.
InitRace ==
    /\ others = TRUE
    /\ settings = DefaultSettings
    /\ repo_config = DefaultRepoConfig
    /\ src \in [heads : [Branches -> Hashes], tags : {PlainSource.tags}]
    /\ tgt \in [heads : [Branches -> Hashes], tags : {PlainTarget.tags}]
    /\ mirror = NoMirror

\* A repository whose source URL was changed in the configuration after its
\* mirror entry was cloned: the entry's origin remote is the former URL.
InitMoved ==
    /\ others = FALSE
    /\ settings \in [enable_mirror_cache : BOOLEAN, cleanup_after_sync : {TRUE}]
    /\ repo_config \in [sync_branches : {<<>>, <<"main", "dev">>}, sync_tags : BOOLEAN]
    /\ src = PlainSource
    /\ tgt \in {PlainTarget, [PlainTarget EXCEPT !.heads["main"] = 2]}
    /\ mirror = [MirrorClone(FormerSource) EXCEPT !.origin = "former"]

\* SyncHistoryManager._load_history, lines 74-75: no history file yet.
NoCall == [op |-> "none", arg |-> "none", ret |-> 0, before |-> <<>>, saved |-> FALSE]

NoHistory ==
    /\ history_file = <<>>
    /\ hclock = 0
    /\ hcall = NoCall

\* A key that a YAML file does not define, and the empty mapping.
Undefined == "undefined"
EmptyDict == "{}"

\* No file of that name in the configuration directory.
NoFile ==
    [exists |-> FALSE, version |-> Undefined, ssh |-> Undefined, sync |-> Undefined,
     defines_repositories |-> FALSE, repositories |-> <<>>]

\* ConfigManager.__init__, line 32: self._config = None.
NoConfig == [loaded |-> FALSE, version |-> Undefined, ssh |-> Undefined, sync |-> Undefined]

NoConfigCall == [op |-> "none", name |-> "none", repo |-> <<>>, ret |-> FALSE]

\* An empty configuration directory and nothing loaded.
NoDisk ==
    /\ config_dir = <<NoFile, NoFile, NoFile>>
    /\ cfg = NoConfig
    /\ ccall = NoConfigCall

\* No mirror path asked for yet.
NoAddressing ==
    /\ cache_names = <<>>
    /\ cache_dirs = {}
    /\ existing_mirrors = {}
    /\ listed = FALSE

\* Nothing stored by the web application yet, no mirror addressed.
NoStore == NoHistory /\ NoDisk /\ NoAddressing

\* The sync engine outside any sync command.
InitEngine ==
    /\ clone = NoClone
    /\ temp_dir = "none"
    /\ branches_to_sync = <<>>
    /\ tags = <<>>
    /\ idx = 1
    /\ result = NewResult
    /\ pushLog = <<>>
    /\ fetched = NoRefs.heads
    /\ mirror_op = "none"
    /\ envSteps = 0
    /\ aborted_at = "none"
    /\ ancestryLog = {}
    /\ queryLog = {}
    /\ bpc = "idle"
    /\ repo_configs = <<>>
    /\ bi = 1
    /\ results = <<>>
    /\ summary = NoSummary
    /\ exit_code = NoExit
    /\ escaped = "none"
    /\ invocations = 0
    /\ gc_failed = {}
    /\ gc_calls = <<>>
    /\ temp_name = NoName
    /\ temp_used = {}
    /\ leftover = {}
    /\ prev = [results |-> <<>>, world |-> world, returned |-> FALSE]

\* The state outside any sync command.
InitRun ==
    /\ InitEngine
    /\ NoStore

\* One call of sync_repository on its own: no batch around it.
NoBatch ==
    /\ repositories = <<>>
    /\ requested = <<>>
    /\ world = [n \in ConfigNames |-> [src |-> NoRefs, tgt |-> NoRefs]]
    /\ mirror_cache = [e \in EntryNames |-> NoEntry]
    /\ repeat = FALSE
    /\ now = MaxClock

Init ==
    /\ dry_run \in BOOLEAN
    /\ InitBranches \/ InitTags \/ InitSettings \/ InitRace
    /\ flaky = FALSE
    /\ NoBatch
    /\ InitRun
    /\ pc = "idle"
    /\ tgtAtStart = tgt

\* ------------------------------------------------------------- Repository
\* Repository.get_ref_hash: `git rev-parse <ref>` in the working clone; the
\* hash when the command exits 0, None (NoHash) otherwise.  "heads" is
\* refs/heads/<name>, "target" is target/<name> (refs/remotes/target/<name>).
\* The command of a query ends in one of three ways: "ok" (git ran and
\* answered from the clone's refs), "exit" (git ran and failed: a non-zero
\* exit that the refs do not explain) and "raise" (subprocess.run raised
\* before or after git ran).
get_ref_hash(c, space, name, q) ==
    IF q # "ok" THEN NoHash
    ELSE IF space = "heads" THEN c.heads[name] ELSE c.tracking[name]

\* An ancestry check that takes a failure of its command for a yes.
IsAncestorUnlessRefuted(ancestor, descendant, q) ==
    q # "ok" \/ Reaches(ancestor, descendant)

\* Repository.is_ancestor: `git merge-base --is-ancestor a d` exits 0; any
\* other exit and any exception give False.
is_ancestor(ancestor, descendant, q) == q = "ok" /\ Reaches(ancestor, descendant)

\* A listing that names every branch known, in the clone or not.
GetEveryBranchName(c, q) == BranchOrder

\* Repository.get_local_branches: `git branch` in the working clone; the
\* empty list when the command exits non-zero (CalledProcessError).  Any
\* other exception is not caught there: see EnumerationRaises.
get_local_branches(c, q) ==
    IF q = "ok" THEN SelectSeq(BranchOrder, LAMBDA b : c.heads[b] # NoHash) ELSE <<>>

\* A listing that finds no tag.
GetNoTags(c, q) == SelectSeq(TagOrder, LAMBDA t : FALSE)

\* Repository.get_tags: `git tag` in the working clone; the empty list when
\* the command exits non-zero.
get_tags(c, q) ==
    IF q = "ok" THEN SelectSeq(TagOrder, LAMBDA t : c.tags[t] # NoHash) ELSE <<>>

\* An enumeration that catches every exception.
EnumerationNeverRaises(q) == FALSE

\* get_local_branches and get_tags catch subprocess.CalledProcessError only
\* (repository.py 161, 175): an exception of another class leaves them.
EnumerationRaises(q) == q = "raise"

\* The ways a query can end in this run.
QueryOutcomes == IF flaky THEN {"ok", "exit", "raise"} ELSE {"ok"}

\* What the receiving repository does with a pushed ref: it creates a missing
\* ref, accepts an unchanged one and a fast-forward of a branch, and accepts
\* anything else only when forced.
GitAccepts(kind, local, remote, force) ==
    \/ remote = NoHash
    \/ remote = local
    \/ kind = "heads" /\ Reaches(remote, local)
    \/ force

\* A push that reports success whatever happened.
PushAlwaysReportsSuccess(c, t, kind, name, force, git_dry_run, transport) ==
    LET local == c[kind][name]
        remote == t[kind][name]
        written == /\ transport = "up"
                   /\ local # NoHash
                   /\ GitAccepts(kind, local, remote, force)
                   /\ ~git_dry_run
    IN  [success |-> TRUE,
         msg |-> "",
         tgt |-> IF written THEN [t EXCEPT ![kind][name] = local] ELSE t,
         tracking |-> IF written /\ kind = "heads"
                      THEN [c.tracking EXCEPT ![name] = local]
                      ELSE c.tracking]

\* Repository.push(remote, refspec, force, dry_run) -> (success, message).
\* transport: "up" (git reaches the target and the target decides), "down"
\* (git exits non-zero without reaching it).  The record also carries the
\* push's effect: the target's refs and the clone's remote-tracking heads.
push(c, t, kind, name, force, git_dry_run, transport) ==
    LET local == c[kind][name]
        remote == t[kind][name]
        ok == /\ transport = "up"
              /\ local # NoHash
              /\ GitAccepts(kind, local, remote, force)
        written == ok /\ ~git_dry_run
    IN  [success |-> ok,
         msg |-> IF ok THEN "" ELSE IF transport = "up" THEN RejectedMsg ELSE TransportMsg,
         tgt |-> IF written THEN [t EXCEPT ![kind][name] = local] ELSE t,
         tracking |-> IF written /\ kind = "heads"
                      THEN [c.tracking EXCEPT ![name] = local]
                      ELSE c.tracking]

\* ------------------------------------------------------- sync_repository
PushForceAlways == TRUE

\* The force argument of the engine's three push calls (sync.py 279, 302,
\* 328): none is given, so Repository.push's default applies.
PushForce == FALSE

\* The decision without the ancestry check: an existing target ref is pushed to.
BranchDecisionNoAncestry(source_hash, target_hash, q) ==
    IF source_hash = NoHash THEN "not_found"
    ELSE IF target_hash # NoHash THEN "fast_forward"
    ELSE "new_branch"

\* The decision with the ancestry test the wrong way round.
BranchDecisionInverted(source_hash, target_hash, q) ==
    IF source_hash = NoHash THEN "not_found"
    ELSE IF target_hash # NoHash
         THEN IF is_ancestor(source_hash, target_hash, q) /\ source_hash # target_hash
              THEN "fast_forward"
              ELSE "diverged"
         ELSE "new_branch"

\* The decision without the test for a missing target ref.
BranchDecisionNoNewBranch(source_hash, target_hash, q) ==
    IF source_hash = NoHash THEN "not_found"
    ELSE IF is_ancestor(target_hash, source_hash, q) THEN "fast_forward"
    ELSE "diverged"

\* The decision with a strict ancestry test: an up-to-date branch is diverged.
BranchDecisionStrict(source_hash, target_hash, q) ==
    IF source_hash = NoHash THEN "not_found"
    ELSE IF target_hash # NoHash
         THEN IF is_ancestor(target_hash, source_hash, q) /\ target_hash # source_hash
              THEN "fast_forward"
              ELSE "diverged"
         ELSE "new_branch"

\* The decision that takes a missing source ref for a branch to push.
BranchDecisionNoSourceTest(source_hash, target_hash, q) ==
    IF target_hash # NoHash
    THEN IF is_ancestor(target_hash, source_hash, q) THEN "fast_forward"
         ELSE "diverged"
    ELSE "new_branch"

\* The branch-sync decision of one loop iteration (sync.py 264-314).
BranchDecision(source_hash, target_hash, q) ==
    IF source_hash = NoHash THEN "not_found"
    ELSE IF target_hash # NoHash
         THEN IF is_ancestor(target_hash, source_hash, q) THEN "fast_forward"
              ELSE "diverged"
         ELSE "new_branch"

IsDryRunNever == FALSE

\* self.dry_run as read at the three push sites (sync.py 278, 301, 327).
IsDryRun == dry_run

\* is_ancestor is called only when both hashes were found (sync.py 266-276).
AncestryChecked(source_hash, target_hash) ==
    source_hash # NoHash /\ target_hash # NoHash

\* The temp dirs holding a source.git once sync_repository returns: this
\* call's directory is gone when rmtree removed it, and stays, with the clone
\* made in it, when rmtree raised or cleanup_after_sync is off.
LeftBehind(td, removed) ==
    IF td = "none" THEN leftover
    ELSE IF removed THEN leftover \ {temp_name}
    ELSE IF clone.exists THEN leftover \cup {temp_name}
    ELSE leftover

CompletedOnlyIfClean(r) ==
    [r EXCEPT !.success = (r.branches_skipped = <<>> /\ r.tags_failed = <<>>)]

\* Line 345: the end of the try block.
Completed(r) == [r EXCEPT !.success = TRUE]

\* The finally block removing the temp dir only after a completed sync.
CleanupOnSuccessOnly(td) ==
    IF td # "none" /\ settings.cleanup_after_sync /\ pc = "tags"
    THEN \E rm_ok \in BOOLEAN :
            /\ temp_dir' = IF rm_ok THEN "removed" ELSE "rm_failed"
            /\ clone' = IF rm_ok THEN NoClone ELSE clone
            /\ leftover' = LeftBehind(td, rm_ok)
    ELSE /\ temp_dir' = td
         /\ clone' = clone
         /\ leftover' = LeftBehind(td, FALSE)

\* The finally block (sync.py 351-358) for a temp dir state td: rmtree
\* removes the directory, or raises and leaves it ("rm_failed"), which is
\* logged only.
Cleanup(td) ==
    IF td # "none" /\ settings.cleanup_after_sync
    THEN \E rm_ok \in BOOLEAN :
            /\ temp_dir' = IF rm_ok THEN "removed" ELSE "rm_failed"
            /\ clone' = IF rm_ok THEN NoClone ELSE clone
            /\ leftover' = LeftBehind(td, rm_ok)
    ELSE /\ temp_dir' = td
         /\ clone' = clone
         /\ leftover' = LeftBehind(td, FALSE)

\* The outer handler without the assignment of the message.
AbortLosesMessage(stage, msg) ==
    /\ result' = result
    /\ aborted_at' = stage
    /\ Cleanup(temp_dir)
    /\ pc' = "done"

\* The outer except block (sync.py 347-349) followed by the finally block.
Abort(stage, msg) ==
    /\ result' = [result EXCEPT !.error = msg]
    /\ aborted_at' = stage
    /\ Cleanup(temp_dir)
    /\ pc' = "done"

\* sync_repository, lines 191-203: a fresh result, no temp dir yet.
Start ==
    /\ pc = "idle"
    /\ result' = NewResult
    /\ temp_dir' = "none"
    /\ leftover' = leftover
    /\ clone' = NoClone
    /\ branches_to_sync' = <<>>
    /\ tags' = <<>>
    /\ idx' = 1
    /\ pushLog' = <<>>
    /\ tgtAtStart' = tgt
    /\ fetched' = NoRefs.heads
    /\ mirror_op' = "none"
    /\ pc' = "keys"
    /\ UNCHANGED <<config, batch, clock, tgt, mirror, envSteps, aborted_at, ancestryLog, queryLog>>

\* Lines 206-208: both key paths through KeyManager.get, which raises
\* SSHKeyError when the key file is missing.
ResolveKeys ==
    /\ pc = "keys"
    /\ \/ /\ pc' = "tempdir"
          /\ UNCHANGED <<result, temp_dir, leftover, clone, aborted_at>>
       \/ Abort("keys", KeyMsg)
    /\ UNCHANGED <<config, batch, clock, tgt, mirror, branches_to_sync, tags, idx, pushLog,
                   tgtAtStart, fetched, mirror_op, envSteps, ancestryLog, queryLog>>

\* The repository sync_repository is called for: in sync_all's loop the
\* configuration at the loop index; a call on its own is for repository a.
RepoName == IF bpc = "loop" THEN repo_configs[bi].name ELSE "a"

\* _create_temp_dir, line 100: strftime("%Y%m%d_%H%M%S") of the clock reading
\* t, the time cut to the whole second.
Timestamp(t) == t \div TicksPerSecond

\* Line 101: base_path / f"{repo_name}_{timestamp}".
TempDirName(repo_name, timestamp) == <<repo_name, timestamp>>

\* Lines 210-215, _create_temp_dir: the clock is read (at or after its last
\* reading) and the directory of that name is made, exist_ok accepting one
\* that is already there.  mkdir may raise, and then temp_dir is still None
\* in the finally block.
CreateTempDir ==
    /\ pc = "tempdir"
    /\ \/ \E t \in now..MaxClock :
             /\ now' = t
             /\ temp_name' = TempDirName(RepoName, Timestamp(t))
             /\ temp_used' = temp_used \cup {temp_name'}
             /\ temp_dir' = "present"
             /\ pc' = "clone"
             /\ UNCHANGED <<result, leftover, clone, aborted_at>>
       \/ /\ Abort("tempdir", MkdirMsg)
          /\ UNCHANGED clock
    /\ UNCHANGED <<config, batch, tgt, mirror, branches_to_sync, tags, idx, pushLog,
                   tgtAtStart, fetched, mirror_op, envSteps, ancestryLog, queryLog>>

UseMirrorAlways == TRUE

\* Line 217: the mirror cache is used only when it is enabled.
UseMirror == settings.enable_mirror_cache

\* A working clone holding the refs r (a bare or mirror copy of the source).
CloneOf(r) ==
    [exists |-> TRUE, heads |-> r.heads, tags |-> r.tags,
     hasTarget |-> FALSE, tracking |-> NoRefs.heads]

\* Repository.fetch("origin") in the mirror m (repository.py 198-208): `git
\* fetch origin --prune` with the mirror's refspec makes its refs those of
\* the repository behind its origin remote, whatever URL is configured now.
MirrorFetch(m) ==
    LET r == IF m.origin = "source" THEN src ELSE FormerSource
    IN  [m EXCEPT !.heads = r.heads, !.tags = r.tags]

\* An _ensure_mirror that clones the mirror anew each time.
EnsureMirrorAlwaysClones(m) == [op |-> "clone", mirror |-> MirrorClone(src)]

\* _ensure_mirror, lines 120-146: a fetch into the entry that exists, a
\* mirror clone of the configured source URL otherwise; `op` is which.
ensure_mirror(m) ==
    IF m.exists
    THEN [op |-> "fetch", mirror |-> MirrorFetch(m)]
    ELSE [op |-> "clone", mirror |-> MirrorClone(src)]

\* Line 223, shutil.copytree(mirror_path, clone_dir): the working clone is
\* the mirror's refs and configuration as they are.
CopyOf(m) ==
    [exists |-> TRUE, heads |-> m.heads, tags |-> m.tags,
     hasTarget |-> m.hasTarget, tracking |-> m.tracking]

\* Lines 217-237.  With the mirror cache: _ensure_mirror, then copytree into
\* the temp dir, which fails when <temp dir>/source.git is already there.
\* Without: a bare clone straight into the temp dir, Repository.clone
\* removing a directory that is in its way (repository.py 99-101).
AcquireClone ==
    /\ pc = "clone"
    /\ IF UseMirror
       THEN LET e == ensure_mirror(mirror)
            IN  /\ mirror_op' = e.op
                /\ \/ /\ temp_name \notin leftover
                      /\ mirror' = e.mirror
                      /\ clone' = CopyOf(e.mirror)
                      /\ pc' = "remote"
                      /\ UNCHANGED <<result, temp_dir, leftover, aborted_at>>
                   \/ /\ mirror' = mirror
                      /\ Abort("clone", IF e.op = "fetch" THEN FetchMsg ELSE CloneMsg)
                   \/ /\ mirror' = e.mirror
                      /\ Abort("clone", CopyMsg)
       ELSE /\ mirror_op' = mirror_op
            /\ \/ /\ clone' = CloneOf(src)
                  /\ pc' = "remote"
                  /\ UNCHANGED <<result, temp_dir, leftover, mirror, aborted_at>>
               \/ /\ Abort("clone", CloneMsg)
                  /\ UNCHANGED mirror
    /\ UNCHANGED <<config, batch, clock, tgt, branches_to_sync, tags, idx, pushLog,
                   tgtAtStart, fetched, envSteps, ancestryLog, queryLog>>

\* A target repository handle working in the mirror entry itself.
TargetWorkDirIsMirror == "mirror_path"

\* Lines 239-243: the directory the target remote is added to and fetched
\* into, work_dir=clone_dir, the copy in the temp dir.
TargetWorkDir == "clone_dir"

\* Lines 239-245: Repository.add_remote("target", url).
AddRemote ==
    /\ pc = "remote"
    /\ \/ /\ IF TargetWorkDir = "clone_dir"
             THEN clone' = [clone EXCEPT !.hasTarget = TRUE] /\ mirror' = mirror
             ELSE mirror' = [mirror EXCEPT !.hasTarget = TRUE] /\ clone' = clone
          /\ pc' = "fetch"
          /\ UNCHANGED <<result, temp_dir, leftover, aborted_at>>
       \/ Abort("remote", RemoteMsg) /\ mirror' = mirror
    /\ UNCHANGED <<config, batch, clock, tgt, branches_to_sync, tags, idx, pushLog,
                   tgtAtStart, fetched, mirror_op, envSteps, ancestryLog, queryLog>>

\* Lines 247-258: fetch the target (its heads become target/<branch>), then
\* determine the candidate branches; an exception leaving get_local_branches
\* reaches the outer handler.
FetchTarget ==
    /\ pc = "fetch"
    /\ \/ /\ IF TargetWorkDir = "clone_dir"
             THEN clone' = [clone EXCEPT !.tracking = tgt.heads] /\ mirror' = mirror
             ELSE mirror' = [mirror EXCEPT !.tracking = tgt.heads] /\ clone' = clone
          /\ fetched' = tgt.heads
          /\ \E q \in QueryOutcomes :
                /\ ~(repo_config.sync_branches = <<>> /\ EnumerationRaises(q))
                /\ branches_to_sync' =
                      IF repo_config.sync_branches # <<>>
                      THEN repo_config.sync_branches
                      ELSE get_local_branches(clone, q)
                /\ queryLog' = IF repo_config.sync_branches # <<>> THEN queryLog
                               ELSE queryLog \cup {<<0, "branches", q>>}
          /\ idx' = 1
          /\ pc' = "branches"
          /\ UNCHANGED <<result, temp_dir, leftover, aborted_at>>
       \/ /\ repo_config.sync_branches = <<>>
          /\ \E q \in QueryOutcomes :
                EnumerationRaises(q) /\ queryLog' = queryLog \cup {<<0, "branches", q>>}
          /\ fetched' = tgt.heads
          /\ Abort("list_branches", QueryRaisedMsg)
          /\ UNCHANGED <<mirror, branches_to_sync, idx>>
       \/ /\ Abort("fetch", FetchMsg)
          /\ UNCHANGED <<fetched, mirror, branches_to_sync, idx, queryLog>>
    /\ UNCHANGED <<config, batch, clock, tgt, tags, pushLog, tgtAtStart, envSteps,
                   ancestryLog, mirror_op>>

\* A branch that was pushed and is recorded in neither list.
BranchSyncedUnrecorded(branch) ==
    result' = result

\* Lines 284, 290, 307, 313: the branch is appended to branches_synced.
BranchSynced(branch) ==
    result' = [result EXCEPT !.branches_synced = Append(@, branch)]

BranchSkipped(branch, reason) ==
    result' = [result EXCEPT !.branches_skipped = Append(@, <<branch, reason>>)]

\* One call of Repository.push, as logged: the ref, the force flag, the loop
\* index, and how the call ended ("ok", a failure message, or RaisedMsg).
PushCall(kind, name, force, outcome) ==
    [kind |-> kind, name |-> name, force |-> force, at |-> idx, outcome |-> outcome]

\* The exception of one iteration reaching the outer handler instead.
BranchExceptionEscapes(branch, msg) ==
    /\ result' = [result EXCEPT !.error = msg]
    /\ aborted_at' = "branches"
    /\ idx' = idx
    /\ temp_dir' = temp_dir
    /\ leftover' = leftover
    /\ clone' = clone
    /\ pc' = "done"

\* Lines 316-318: an exception inside one iteration of the branch loop.
BranchException(branch, msg) ==
    /\ BranchSkipped(branch, msg)
    /\ idx' = idx + 1
    /\ UNCHANGED <<pc, temp_dir, leftover, clone, aborted_at>>

\* Lines 261-318: one iteration of the branch loop.
SyncBranch ==
    /\ pc = "branches"
    /\ idx <= Len(branches_to_sync)
    /\ \E qs \in QueryOutcomes, qt \in QueryOutcomes, qa \in QueryOutcomes :
       LET branch == branches_to_sync[idx]
           source_hash == get_ref_hash(clone, "heads", branch, qs)
           target_hash == get_ref_hash(clone, "target", branch, qt)
           decision == BranchDecision(source_hash, target_hash, qa)
       IN  /\ ancestryLog' = IF AncestryChecked(source_hash, target_hash)
                             THEN ancestryLog \cup {idx} ELSE ancestryLog
           /\ queryLog' = queryLog
                  \cup (IF source_hash # NoHash THEN {<<idx, "target", qt>>} ELSE {})
                  \cup (IF AncestryChecked(source_hash, target_hash)
                        THEN {<<idx, "ancestor", qa>>} ELSE {})
           /\ IF decision = "not_found"
              THEN /\ BranchSkipped(branch, NotFoundReason)
                   /\ idx' = idx + 1
                   /\ UNCHANGED <<tgt, clone, pushLog, pc, temp_dir, leftover, aborted_at>>
              ELSE IF decision = "diverged"
              THEN /\ BranchSkipped(branch, DivergedReason)
                   /\ idx' = idx + 1
                   /\ UNCHANGED <<tgt, clone, pushLog, pc, temp_dir, leftover, aborted_at>>
              ELSE IF IsDryRun
              THEN /\ BranchSynced(branch)
                   /\ idx' = idx + 1
                   /\ UNCHANGED <<tgt, clone, pushLog, pc, temp_dir, leftover, aborted_at>>
              ELSE \/ \E transport \in {"up", "down"} :
                        LET r == push(clone, tgt, "heads", branch, PushForce, FALSE, transport)
                        IN  /\ pushLog' = Append(pushLog,
                                  PushCall("heads", branch, PushForce,
                                           IF r.success THEN "ok" ELSE r.msg))
                            /\ tgt' = r.tgt
                            /\ clone' = [clone EXCEPT !.tracking = r.tracking]
                            /\ IF r.success
                               THEN BranchSynced(branch)
                               ELSE BranchSkipped(branch, r.msg)
                            /\ idx' = idx + 1
                            /\ UNCHANGED <<pc, temp_dir, leftover, aborted_at>>
                   \/ /\ pushLog' = Append(pushLog,
                            PushCall("heads", branch, PushForce, RaisedMsg))
                      /\ BranchException(branch, RaisedMsg)
                      /\ UNCHANGED tgt
    /\ UNCHANGED <<config, batch, clock, mirror, branches_to_sync, tags, tgtAtStart, fetched, mirror_op,
                   envSteps>>

\* Lines 320-323: after the branch loop, the tag list when sync_tags is set;
\* an exception leaving get_tags reaches the outer handler.
StartTags ==
    /\ pc = "branches"
    /\ idx > Len(branches_to_sync)
    /\ \/ /\ \E q \in QueryOutcomes :
                /\ ~(repo_config.sync_tags /\ EnumerationRaises(q))
                /\ tags' = IF repo_config.sync_tags THEN get_tags(clone, q) ELSE <<>>
                /\ queryLog' = IF repo_config.sync_tags
                               THEN queryLog \cup {<<0, "tags", q>>} ELSE queryLog
          /\ idx' = 1
          /\ pc' = "tags"
          /\ UNCHANGED <<clone, temp_dir, leftover, result, aborted_at>>
       \/ /\ repo_config.sync_tags
          /\ \E q \in QueryOutcomes :
                EnumerationRaises(q) /\ queryLog' = queryLog \cup {<<0, "tags", q>>}
          /\ Abort("list_tags", QueryRaisedMsg)
          /\ UNCHANGED <<tags, idx>>
    /\ UNCHANGED <<config, batch, clock, tgt, mirror, branches_to_sync,
                   pushLog, tgtAtStart, fetched, mirror_op, envSteps, ancestryLog>>

TagSynced(tag) ==
    result' = [result EXCEPT !.tags_synced = Append(@, tag)]

TagFailed(tag, reason) ==
    result' = [result EXCEPT !.tags_failed = Append(@, <<tag, reason>>)]

\* Lines 325-343: one iteration of the tag loop.
SyncTag ==
    /\ pc = "tags"
    /\ idx <= Len(tags)
    /\ LET tag == tags[idx]
       IN  IF IsDryRun
           THEN /\ TagSynced(tag)
                /\ UNCHANGED <<tgt, pushLog>>
           ELSE \/ \E transport \in {"up", "down"} :
                     LET r == push(clone, tgt, "tags", tag, PushForce, FALSE, transport)
                     IN  /\ pushLog' = Append(pushLog,
                               PushCall("tags", tag, PushForce,
                                        IF r.success THEN "ok" ELSE r.msg))
                         /\ tgt' = r.tgt
                         /\ IF r.success THEN TagSynced(tag) ELSE TagFailed(tag, r.msg)
                \/ /\ pushLog' = Append(pushLog,
                         PushCall("tags", tag, PushForce, RaisedMsg))
                   /\ TagFailed(tag, RaisedMsg)
                   /\ UNCHANGED tgt
    /\ idx' = idx + 1
    /\ UNCHANGED <<config, batch, clock, mirror, clone, temp_dir, leftover, pc, branches_to_sync, tags,
                   tgtAtStart, fetched, mirror_op, envSteps, aborted_at, ancestryLog, queryLog>>

\* Lines 345-361: success, then the finally block, then the return.
Finish ==
    /\ pc = "tags"
    /\ idx > Len(tags)
    /\ result' = Completed(result)
    /\ Cleanup(temp_dir)
    /\ pc' = "done"
    /\ UNCHANGED <<config, batch, clock, tgt, mirror, branches_to_sync, tags, idx, pushLog,
                   tgtAtStart, fetched, mirror_op, envSteps, aborted_at, ancestryLog, queryLog>>

\* Another writer of the target, between the engine's fetch and its pushes:
\* it creates a branch or a tag, or advances a branch.
TargetChanges ==
    /\ others
    /\ pc \in {"branches", "tags"}
    /\ envSteps < MaxEnvSteps
    /\ envSteps' = envSteps + 1
    /\ \/ \E b \in Branches, c \in Commits :
            /\ c # tgt.heads[b]
            /\ tgt.heads[b] # NoHash => Reaches(tgt.heads[b], c)
            /\ tgt' = [tgt EXCEPT !.heads[b] = c]
       \/ \E t \in Tags, c \in TagHashes \ {NoHash} :
            /\ tgt.tags[t] = NoHash
            /\ tgt' = [tgt EXCEPT !.tags[t] = c]
    /\ UNCHANGED <<config, batch, clock, mirror, clone, temp_dir, leftover, pc, branches_to_sync, tags, idx,
                   result, pushLog, tgtAtStart, fetched, mirror_op, aborted_at, ancestryLog, queryLog>>

\* --------------------------------------------------------------- sync_all
\* The variables of one call of sync_repository.
call == <<repo_config, src, tgt, mirror, clone, temp_dir, leftover, pc, branches_to_sync,
          tags, idx, result, pushLog, tgtAtStart, fetched, mirror_op, envSteps, aborted_at,
          ancestryLog, queryLog>>

\* ConfigManager.get_repository: the first configuration of that name, as a
\* list of one, or the empty list for None.
get_repository(name) ==
    LET found == SelectSeq(repositories, LAMBDA r : r.name = name)
    IN  IF found = <<>> THEN <<>> ELSE <<found[1]>>

\* An unnamed selection that takes the disabled repositories too.
GetEveryRepository == repositories

\* ConfigManager.get_enabled_repositories.
get_enabled_repositories == SelectSeq(repositories, LAMBDA r : r.enabled)

RECURSIVE NamedConfigs(_)
\* sync_all, lines 376-382: the configurations found for the names, in the
\* names' order; a name that is not configured is logged and left out.
NamedConfigs(names) ==
    IF names = <<>> THEN <<>>
    ELSE get_repository(Head(names)) \o NamedConfigs(Tail(names))

\* The selection that takes a named repository only if it is enabled.
SelectedConfigsEnabledOnly(names) ==
    IF names # <<>>
    THEN SelectSeq(NamedConfigs(names), LAMBDA r : r.enabled)
    ELSE get_enabled_repositories

\* sync_all, lines 375-384.
SelectedConfigs(names) ==
    IF names # <<>> THEN NamedConfigs(names) ELSE get_enabled_repositories

\* _get_mirror_path, line 118: mirror_base / f"{repo_name}.git".
MirrorPath(repo_name) == <<repo_name, DotGit>>

\* _cleanup_stale_mirrors, lines 161-166: the names of the directories whose
\* name ends in ".git", without that suffix.
ExistingMirrors(cache) ==
    {e[1] : e \in {x \in EntryNames : cache[x].kind = "dir" /\ x[2] = DotGit}}

\* Lines 168-172.
StaleMirrors(cache, active) == ExistingMirrors(cache) \ Range(active)

\* The cleanup that removes every mirror, active or not.
CleanupEveryMirror(cache, active, failing) ==
    [e \in EntryNames |->
        IF e \in {MirrorPath(n) : n \in ExistingMirrors(cache) \ failing}
        THEN NoEntry ELSE cache[e]]

\* _cleanup_stale_mirrors(active), lines 154-180, on the directory `cache`:
\* rmtree of every stale mirror, a failure of which is logged only; `failing`
\* are the names whose rmtree raises.  A missing directory has no entries, and
\* the early return of line 158 leaves it so.
cleanup_stale_mirrors(cache, active, failing) ==
    [e \in EntryNames |->
        IF e \in {MirrorPath(n) : n \in StaleMirrors(cache, active) \ failing}
        THEN NoEntry ELSE cache[e]]

\* Line 399: the names GC is given as the active ones.
ActiveNames(configs) == [n \in DOMAIN configs |-> configs[n].name]

\* A summary that counts every result as successful.
SyncSummaryCountsAll(rs) ==
    [total |-> Len(rs),
     successful |-> Len(rs),
     failed |-> Cardinality({n \in DOMAIN rs : ~rs[n].success}),
     results |-> rs,
     returned |-> TRUE]

\* SyncSummary, lines 411-418.
SyncSummaryOf(rs) ==
    [total |-> Len(rs),
     successful |-> Cardinality({n \in DOMAIN rs : rs[n].success}),
     failed |-> Cardinality({n \in DOMAIN rs : ~rs[n].success}),
     results |-> rs,
     returned |-> TRUE]

\* A loop that ends at the first failed repository.
NextRepositoryUnlessFailed(i, r) ==
    IF r.success THEN i + 1 ELSE Len(repo_configs) + 1

\* Lines 405-407: the loop goes on to the next configuration whatever the
\* result r of the one at index i.
NextRepository(i, r) == i + 1

\* An exit status that counts skipped branches and failed tags as failures.
ExitStatusStrict(s) ==
    IF \E n \in DOMAIN s.results :
          \/ ~s.results[n].success
          \/ s.results[n].branches_skipped # <<>>
          \/ s.results[n].tags_failed # <<>>
    THEN 1 ELSE 0

\* cli.py 352-354: sys.exit(1) if summary.failed > 0, a normal return otherwise.
ExitStatus(s) == IF s.failed > 0 THEN 1 ELSE 0

\* A sync_all that goes on to the cleanup and the loop with nothing selected.
NothingToSyncNever(configs) == FALSE

\* Line 386: `if not repo_configs`, the early return of the empty summary.
NothingToSync(configs) == configs = <<>>

\* The SyncResult of repository `name` (SyncResult.repository, line 195).
Named(name, r) ==
    [repository |-> name, success |-> r.success,
     branches_synced |-> r.branches_synced, branches_skipped |-> r.branches_skipped,
     tags_synced |-> r.tags_synced, tags_failed |-> r.tags_failed, error |-> r.error]

Next ==
    \/ Start
    \/ ResolveKeys
    \/ CreateTempDir
    \/ AcquireClone
    \/ AddRemote
    \/ FetchTarget
    \/ SyncBranch
    \/ StartTags
    \/ SyncTag
    \/ Finish
    \/ TargetChanges

Spec == Init /\ [][Next]_vars

\* ------------------------------------------------- queries that can fail
\* One call of sync_repository in which every local query of git can fail:
\* main behind, level or diverged at the target, dev new there, with and
\* without an explicit branch list and tag sync.
QueryInit ==
    /\ dry_run \in BOOLEAN
    /\ others = FALSE
    /\ flaky = TRUE
    /\ settings = DefaultSettings
    /\ repo_config \in [sync_branches : {<<>>, <<"main", "dev">>, <<"main", "main">>},
                         sync_tags : BOOLEAN]
    /\ src = PlainSource
    /\ tgt \in {[PlainTarget EXCEPT !.heads["main"] = h] : h \in {1, 2, 3}}
    /\ mirror = NoMirror
    /\ NoBatch
    /\ InitRun
    /\ pc = "idle"
    /\ tgtAtStart = tgt

QueryNext ==
    \/ Start
    \/ ResolveKeys
    \/ CreateTempDir
    \/ AcquireClone
    \/ AddRemote
    \/ FetchTarget
    \/ SyncBranch
    \/ StartTags
    \/ SyncTag
    \/ Finish

QuerySpec == QueryInit /\ [][QueryNext]_vars

\* ------------------------------------------- a source URL that was changed
\* One call of sync_repository for a repository whose mirror entry was cloned
\* from the URL its configuration named before; the queries answer from the
\* refs.
MovedInit ==
    /\ dry_run \in BOOLEAN
    /\ InitMoved
    /\ flaky = FALSE
    /\ NoBatch
    /\ InitRun
    /\ pc = "idle"
    /\ tgtAtStart = tgt

MovedSpec == MovedInit /\ [][QueryNext]_vars

\* ------------------------------------------------------- the sync command
\* cli.py 317-325: the command builds the orchestrator, which loads the
\* configuration (ConfigurationError, a GitSyncError) and creates the key
\* storage directory (OSError).  Either leaves the command: the first through
\* the handler of lines 356-358, the second uncaught; both end the process
\* with status 1.
SyncCommand ==
    /\ bpc \in {"idle", "exited"}
    /\ invocations = 0 \/ (repeat /\ invocations < MaxRuns)
    /\ invocations' = invocations + 1
    /\ prev' = [results |-> results, world |-> world, returned |-> summary.returned]
    /\ results' = <<>>
    /\ repo_configs' = <<>>
    /\ bi' = 1
    /\ summary' = NoSummary
    /\ gc_failed' = {}
    /\ gc_calls' = <<>>
    /\ \/ /\ bpc' = "select"
          /\ exit_code' = NoExit
          /\ escaped' = "none"
       \/ \E e \in {"ConfigurationError", "OSError"} :
            /\ bpc' = "exited"
            /\ exit_code' = 1
            /\ escaped' = e
    /\ UNCHANGED <<dry_run, settings, others, flaky, store, clock, call, repositories, requested, world,
                   mirror_cache, repeat>>

\* sync_all, lines 372-395: the selection, and the empty summary returned at
\* once when nothing is selected.
SyncAllSelect ==
    /\ bpc = "select"
    /\ repo_configs' = SelectedConfigs(requested)
    /\ IF NothingToSync(repo_configs')
       THEN /\ summary' = SyncSummaryOf(<<>>)
            /\ bpc' = "summary"
       ELSE /\ summary' = summary
            /\ bpc' = "gc"
    /\ UNCHANGED <<dry_run, settings, others, flaky, store, clock, call, repositories, requested, world,
                   mirror_cache, bi, results, exit_code, escaped, invocations,
                   repeat, gc_failed, gc_calls, prev>>

\* sync_all, lines 397-402: the cleanup of stale mirrors when the cache is
\* enabled.  Listing the cache directory (lines 157-163) is not guarded: an
\* OSError there leaves sync_all and the command.
SyncAllCleanup ==
    /\ bpc = "gc"
    /\ bi' = 1
    /\ gc_calls' = IF settings.enable_mirror_cache
                   THEN Append(gc_calls, ActiveNames(repo_configs))
                   ELSE gc_calls
    /\ IF settings.enable_mirror_cache
       THEN \/ \E failing \in SUBSET StaleMirrors(mirror_cache, ActiveNames(repo_configs)) :
                 /\ mirror_cache' = cleanup_stale_mirrors(
                                        mirror_cache, ActiveNames(repo_configs), failing)
                 /\ gc_failed' = failing
                 /\ bpc' = "loop"
                 /\ UNCHANGED <<exit_code, escaped>>
            \/ /\ mirror_cache' = mirror_cache
               /\ gc_failed' = gc_failed
               /\ bpc' = "exited"
               /\ exit_code' = 1
               /\ escaped' = "OSError"
       ELSE /\ mirror_cache' = mirror_cache
            /\ gc_failed' = gc_failed
            /\ bpc' = "loop"
            /\ UNCHANGED <<exit_code, escaped>>
    /\ UNCHANGED <<dry_run, settings, others, flaky, store, clock, call, repositories, requested, world,
                   repo_configs, results, summary, invocations, repeat, prev>>

\* The mirror-cache entry of repository `name` as sync_repository sees it.
MirrorOf(name) ==
    LET e == mirror_cache[MirrorPath(name)]
    IN  [exists |-> e.kind # "absent", heads |-> e.heads, tags |-> e.tags,
         origin |-> e.origin, hasTarget |-> e.hasTarget, tracking |-> e.tracking]

\* Lines 405-406: the loop takes the next configuration and calls
\* sync_repository on it, which works on that repository's source, target
\* and mirror entry.
SyncAllCall ==
    /\ bpc = "loop"
    /\ pc = "parked"
    /\ bi <= Len(repo_configs)
    /\ LET rc == repo_configs[bi]
       IN  /\ repo_config' = [sync_branches |-> rc.sync_branches, sync_tags |-> rc.sync_tags]
           /\ src' = world[rc.name].src
           /\ tgt' = world[rc.name].tgt
           /\ tgtAtStart' = world[rc.name].tgt
           /\ mirror' = MirrorOf(rc.name)
    /\ pc' = "idle"
    /\ UNCHANGED <<dry_run, settings, others, flaky, store, clock, clone, temp_dir, leftover, branches_to_sync, tags,
                   idx, result, pushLog, fetched, mirror_op, envSteps, aborted_at, ancestryLog, queryLog,
                   batch>>

\* Line 407: the result is appended; the repository's target and mirror entry
\* are as the call left them.
SyncAllCollect ==
    /\ bpc = "loop"
    /\ pc = "done"
    /\ LET rc == repo_configs[bi]
       IN  /\ results' = Append(results, Named(rc.name, result))
           /\ world' = [world EXCEPT ![rc.name].tgt = tgt]
           /\ mirror_cache' =
                 [mirror_cache EXCEPT ![MirrorPath(rc.name)] =
                     [kind |-> IF mirror.exists THEN "dir" ELSE "absent",
                      heads |-> mirror.heads, tags |-> mirror.tags,
                      origin |-> mirror.origin, hasTarget |-> mirror.hasTarget,
                      tracking |-> mirror.tracking]]
    /\ bi' = NextRepository(bi, result)
    /\ pc' = "parked"
    /\ clone' = NoClone
    /\ temp_dir' = "none"
    /\ leftover' = leftover
    /\ branches_to_sync' = <<>>
    /\ tags' = <<>>
    /\ idx' = 1
    /\ result' = NewResult
    /\ pushLog' = <<>>
    /\ fetched' = NoRefs.heads
    /\ mirror_op' = "none"
    /\ aborted_at' = "none"
    /\ ancestryLog' = {}
    /\ queryLog' = {}
    /\ UNCHANGED <<dry_run, settings, others, flaky, store, clock, repo_config, src, tgt, mirror,
                   tgtAtStart, envSteps, repositories, requested, bpc, repo_configs,
                   summary, exit_code, escaped, invocations, repeat, gc_failed,
                   gc_calls, prev>>

\* Lines 409-429: the summary of the results.
SyncAllReturn ==
    /\ bpc = "loop"
    /\ pc = "parked"
    /\ bi > Len(repo_configs)
    /\ summary' = SyncSummaryOf(results)
    /\ bpc' = "summary"
    /\ UNCHANGED <<dry_run, settings, others, flaky, store, clock, call, repositories, requested, world,
                   mirror_cache, repo_configs, bi, results, exit_code, escaped,
                   invocations, repeat, gc_failed, gc_calls, prev>>

\* cli.py 327-354: the summary is printed and the command exits.
SyncCommandExit ==
    /\ bpc = "summary"
    /\ exit_code' = ExitStatus(summary)
    /\ bpc' = "exited"
    /\ UNCHANGED <<dry_run, settings, others, flaky, store, clock, call, repositories, requested, world,
                   mirror_cache, repo_configs, bi, results, summary, escaped,
                   invocations, repeat, gc_failed, gc_calls, prev>>

\* A RepositoryConfig with the defaults of schema.py 45-48 and the ordering
\* index `order`.
CfgOrdered(name, enabled, order) ==
    [name |-> name, enabled |-> enabled, sync_branches |-> <<>>, sync_tags |-> TRUE,
     order |-> order]

\* A RepositoryConfig with the defaults of schema.py 45-48.
Cfg(name, enabled) == CfgOrdered(name, enabled, 0)

NameLists == UNION {[1..n -> RequestNames] : n \in 0..MaxNames}

\* Repository b: one branch, no tag, an empty target.
SmallSource == [heads |-> [x \in Branches |-> IF x = "main" THEN 1 ELSE NoHash],
                tags |-> NoRefs.tags]
PlainWorld ==
    [n \in ConfigNames |->
        IF n = "a" THEN [src |-> PlainSource, tgt |-> PlainTarget]
        ELSE [src |-> SmallSource, tgt |-> NoRefs]]

\* A mirror directory holding the refs r.
MirrorDir(r) ==
    [kind |-> "dir", heads |-> r.heads, tags |-> r.tags,
     origin |-> "source", hasTarget |-> FALSE, tracking |-> NoRefs.heads]

\* Every selection: both repositories configured, each enabled or not, under
\* every list of names asked for; no mirror entry yet.
BatchSelect ==
    /\ dry_run \in BOOLEAN
    /\ settings = DefaultSettings
    /\ repositories \in {<<Cfg("a", ea), Cfg("b", eb)>> : ea \in BOOLEAN, eb \in BOOLEAN}
    /\ requested \in NameLists
    /\ world = PlainWorld
    /\ mirror_cache = [e \in EntryNames |-> NoEntry]
    /\ repeat = FALSE

\* Every content of the mirror-cache directory: the mirrors of a and b, the
\* mirror of a repository no longer configured (or a file of that name) and a
\* directory that is no mirror; b configured or not; dry runs only.
BatchMirrors ==
    /\ dry_run = TRUE
    /\ settings \in [enable_mirror_cache : BOOLEAN, cleanup_after_sync : {TRUE}]
    /\ repositories \in {<<Cfg("a", TRUE)>>, <<Cfg("a", TRUE), Cfg("b", TRUE)>>,
                         <<Cfg("a", TRUE), Cfg("b", FALSE)>>}
    /\ requested \in {<<>>, <<"a">>, <<"x">>}
    /\ world = PlainWorld
    /\ mirror_cache \in
          {[e \in EntryNames |->
               IF e = MirrorPath("a") THEN (IF ka THEN MirrorDir(PlainSource) ELSE NoEntry)
               ELSE IF e = MirrorPath("b") THEN (IF kb THEN MirrorDir(SmallSource) ELSE NoEntry)
               ELSE IF e = MirrorPath("old") THEN [NoEntry EXCEPT !.kind = ko]
               ELSE [NoEntry EXCEPT !.kind = kn]] :
             ka \in BOOLEAN, kb \in BOOLEAN, ko \in {"absent", "dir", "file"},
             kn \in {"absent", "dir"}}
    /\ repeat = FALSE

\* One repository synced again and again with nothing else changing: its
\* tag missing at the target, or held there at the same or another commit,
\* its main branch behind at the target or diverged.
BatchAgain ==
    /\ dry_run \in BOOLEAN
    /\ settings = DefaultSettings
    /\ repositories = <<Cfg("a", TRUE)>>
    /\ requested = <<>>
    /\ world \in {[PlainWorld EXCEPT !["a"].tgt.tags["v1"] = h,
                                     !["a"].tgt.heads["main"] = m] :
                   h \in TagHashes, m \in {1, 3}}
    /\ mirror_cache = [e \in EntryNames |-> NoEntry]
    /\ repeat = TRUE

\* Two repositories with every pair of ordering indexes, as Config.from_dict
\* reads them in the order of the configuration's list (schema.py 146-165),
\* synced without names and with the names the other way round.
BatchOrder ==
    /\ dry_run = TRUE
    /\ settings = DefaultSettings
    /\ repositories \in {<<CfgOrdered("a", TRUE, oa), CfgOrdered("b", TRUE, ob)>> :
                            oa \in 0..1, ob \in 0..1}
    /\ requested \in {<<>>, <<"b", "a">>}
    /\ world = PlainWorld
    /\ mirror_cache = [e \in EntryNames |-> NoEntry]
    /\ repeat = FALSE

\* One repository asked for twice, or two repositories, while the clock
\* runs: the calls of one command read it in the same second or not, and a
\* temp dir stays on disk or not.
BatchClock ==
    /\ dry_run = TRUE
    /\ settings \in [enable_mirror_cache : {TRUE}, cleanup_after_sync : BOOLEAN]
    /\ repositories = <<Cfg("a", TRUE), Cfg("b", TRUE)>>
    /\ requested \in {<<>>, <<"a", "a">>}
    /\ world = PlainWorld
    /\ mirror_cache = [e \in EntryNames |-> NoEntry]
    /\ repeat = FALSE

BatchInit ==
    /\ \/ (BatchSelect \/ BatchMirrors \/ BatchAgain \/ BatchOrder) /\ now = MaxClock
       \/ BatchClock /\ now = 0
    /\ others = FALSE
    /\ flaky = FALSE
    /\ repo_config = DefaultRepoConfig
    /\ src = NoRefs
    /\ tgt = NoRefs
    /\ tgtAtStart = NoRefs
    /\ mirror = NoMirror
    /\ pc = "parked"
    /\ InitRun

BatchNext ==
    \/ SyncCommand
    \/ SyncAllSelect
    \/ SyncAllCleanup
    \/ SyncAllCall
    \/ Start
    \/ ResolveKeys
    \/ CreateTempDir
    \/ AcquireClone
    \/ AddRemote
    \/ FetchTarget
    \/ SyncBranch
    \/ StartTags
    \/ SyncTag
    \/ Finish
    \/ SyncAllCollect
    \/ SyncAllReturn
    \/ SyncCommandExit

BatchSpec == BatchInit /\ [][BatchNext]_vars

\* ------------------------------------------------------- the sync history
\* SyncHistoryManager (src/git_sync/web/history.py) keeps the records of the
\* web application's syncs in one JSON file, which every operation reads and
\* writes as a whole.  _save_history logs a failure to write and goes on
\* (lines 86-91): the file then stays as it was.

\* The sync engine at rest: what the web application's stores never touch.
Parked ==
    /\ dry_run = FALSE
    /\ settings = DefaultSettings
    /\ repo_config = DefaultRepoConfig
    /\ src = NoRefs
    /\ tgt = NoRefs
    /\ tgtAtStart = NoRefs
    /\ mirror = NoMirror
    /\ others = FALSE
    /\ flaky = FALSE
    /\ pc = "parked"
    /\ requested = <<>>
    /\ world = [n \in ConfigNames |-> [src |-> NoRefs, tgt |-> NoRefs]]
    /\ mirror_cache = [e \in EntryNames |-> NoEntry]
    /\ repeat = FALSE
    /\ now = MaxClock
    /\ InitEngine

engine == <<dry_run, settings, others, flaky, call, clock, requested, world, mirror_cache,
            bpc, repo_configs, bi, results, summary, exit_code, escaped, invocations,
            repeat, gc_failed, gc_calls, prev>>

\* history.py 60: MAX_RECORDS = 1000, scaled down to the bound MaxRecords.
MAX_RECORDS == MaxRecords

\* The ids of records: the first eight characters of a uuid4 (api/history.py
\* 119), which two records can share.
RecordIds == {"id1", "id2"}

\* No repository argument (None), and the empty string, which `if repository`
\* (line 181) takes for none as well.
NoRepository == "none"
ClearArguments == {NoRepository, ""} \cup ConfigNames

\* SyncHistoryRecord, with the timestamp of its creation (api/history.py 121).
HistoryRecord(id, repository, timestamp) ==
    [id |-> id, repository |-> repository, timestamp |-> timestamp]

\* _load_history, lines 72-82.
load_history == history_file

\* _save_history, lines 84-91: the file holds the records if the write worked.
save_history(records, write_ok) ==
    history_file' = IF write_ok THEN records ELSE history_file

\* A truncation that keeps the last MAX_RECORDS records of the list.
TruncateNewest(records) ==
    IF Len(records) > MAX_RECORDS
    THEN SubSeq(records, Len(records) - MAX_RECORDS + 1, Len(records))
    ELSE records

\* add_record, lines 105-107: records[:MAX_RECORDS].
Truncate(records) ==
    IF Len(records) > MAX_RECORDS THEN SubSeq(records, 1, MAX_RECORDS) ELSE records

\* add_record, lines 96-110.
AddRecord ==
    /\ hclock < MaxAdds
    /\ \E id \in RecordIds, repository \in ConfigNames, write_ok \in BOOLEAN :
          LET record == HistoryRecord(id, repository, hclock + 1)
              records == Truncate(<<record>> \o load_history)
          IN  /\ save_history(records, write_ok)
              /\ hcall' = [op |-> "add", arg |-> id, ret |-> 0,
                           before |-> history_file, saved |-> write_ok]
    /\ hclock' = hclock + 1
    /\ UNCHANGED <<engine, repositories, disk, addressing>>

\* delete_record, lines 153-170: True (1) when a record of that id was there.
DeleteRecord ==
    /\ \E record_id \in RecordIds :
          LET records == SelectSeq(load_history, LAMBDA r : r.id # record_id)
          IN  IF Len(records) < Len(load_history)
              THEN \E write_ok \in BOOLEAN :
                      /\ save_history(records, write_ok)
                      /\ hcall' = [op |-> "delete", arg |-> record_id, ret |-> 1,
                                   before |-> history_file, saved |-> write_ok]
              ELSE /\ history_file' = history_file
                   /\ hcall' = [op |-> "delete", arg |-> record_id, ret |-> 0,
                                before |-> history_file, saved |-> FALSE]
    /\ UNCHANGED <<engine, repositories, disk, addressing, hclock>>

\* A clear_history that counts the records before it empties the file.
ClearAllCountingBefore(write_ok) ==
    /\ save_history(<<>>, write_ok)
    /\ hcall' = [op |-> "clear", arg |-> NoRepository, ret |-> Len(load_history),
                 before |-> history_file, saved |-> write_ok]

\* clear_history without a repository, lines 187-189: the file is emptied,
\* then loaded and counted.
ClearAll(write_ok) ==
    /\ save_history(<<>>, write_ok)
    /\ hcall' = [op |-> "clear", arg |-> NoRepository, ret |-> Len(history_file'),
                 before |-> history_file, saved |-> write_ok]

\* clear_history, lines 172-189.
ClearHistory ==
    /\ \E repository \in ClearArguments, write_ok \in BOOLEAN :
          IF repository \notin {NoRepository, ""}
          THEN LET records == SelectSeq(load_history, LAMBDA r : r.repository # repository)
               IN  /\ save_history(records, write_ok)
                   /\ hcall' = [op |-> "clear", arg |-> repository,
                                ret |-> Len(load_history) - Len(records),
                                before |-> history_file, saved |-> write_ok]
          ELSE ClearAll(write_ok)
    /\ UNCHANGED <<engine, repositories, disk, addressing, hclock>>

HistoryInit ==
    /\ Parked
    /\ repositories = <<>>
    /\ NoHistory
    /\ NoDisk
    /\ NoAddressing

HistoryNext ==
    \/ AddRecord
    \/ DeleteRecord
    \/ ClearHistory

HistorySpec == HistoryInit /\ [][HistoryNext]_vars

\* ------------------------------------------------ the configuration files
\* ConfigManager (src/git_sync/config/loader.py) reads every YAML file of the
\* configuration directory in sorted order and merges them; save_repository,
\* delete_repository and reorder_repositories rewrite repositories.yaml and
\* drop the loaded configuration, which the next access loads again.

\* The files of the directory in sorted order (line 76), repositories.yaml
\* between a file sorted before it and one sorted after it.
FileNames == <<"base.yaml", "repositories.yaml", "team.yaml">>
ReposFile == 2

\* What Python takes for false in `if not merged[...]` and `if repo_name`.
Truthy(v) == v \notin {Undefined, EmptyDict, ""}

\* A YAML file with global settings and a list of repositories.
FileOf(version, ssh, sync, repos) ==
    [exists |-> TRUE, version |-> version, ssh |-> ssh, sync |-> sync,
     defines_repositories |-> TRUE, repositories |-> repos]

\* _write_yaml of {"repositories": repos}: the file holds that key alone.
RepositoriesOnly(repos) == FileOf(Undefined, Undefined, Undefined, repos)

\* RepositoryConfig.to_dict, schema.py 50-60.
to_dict(repo) ==
    [name |-> repo.name, enabled |-> repo.enabled, sync_branches |-> repo.sync_branches,
     sync_tags |-> repo.sync_tags, order |-> repo.order]

\* Config.from_dict, schema.py 146-165: one RepositoryConfig of its dict.
RepositoryFromDict(repo_data) ==
    CfgOrdered(repo_data.name, repo_data.enabled, repo_data.order)

\* load_config_files, lines 75-91: the data of the files there are, sorted.
load_config_files == SelectSeq(config_dir, LAMBDA f : f.exists)

RECURSIVE MergeGlobal(_, _, _)
\* merge_configs, lines 115-124: a global setting is taken from a file that
\* defines it while the merged value is still false.
MergeGlobal(configs, key, merged) ==
    IF configs = <<>> THEN merged
    ELSE MergeGlobal(Tail(configs), key,
                     IF ~Truthy(merged) /\ Head(configs)[key] # Undefined
                     THEN Head(configs)[key]
                     ELSE merged)

\* A map that keeps every entry, whatever its name.
PutAppending(repo_map, repo) == Append(repo_map, repo)

\* repo_map[name] = repo on a dict: the value of an existing key is replaced
\* where the key stands, a new key is added at the end.
Put(repo_map, repo) ==
    IF \E i \in DOMAIN repo_map : repo_map[i].name = repo.name
    THEN [i \in DOMAIN repo_map |->
             IF repo_map[i].name = repo.name THEN repo ELSE repo_map[i]]
    ELSE Append(repo_map, repo)

RECURSIVE PutAll(_, _)
PutAll(repo_map, repos) ==
    IF repos = <<>> THEN repo_map
    ELSE PutAll(Put(repo_map, Head(repos)), Tail(repos))

RECURSIVE AllRepositories(_)
\* Lines 127-131: the repositories of every file that has the key, in order.
AllRepositories(configs) ==
    IF configs = <<>> THEN <<>>
    ELSE (IF Head(configs).defines_repositories THEN Head(configs).repositories ELSE <<>>)
            \o AllRepositories(Tail(configs))

\* merge_configs, lines 93-138.
merge_configs(configs) ==
    [version |-> MergeGlobal(configs, "version", "1.0"),
     ssh |-> MergeGlobal(configs, "ssh", EmptyDict),
     sync |-> MergeGlobal(configs, "sync", EmptyDict),
     repositories |-> PutAll(<<>>, SelectSeq(AllRepositories(configs),
                                             LAMBDA repo : Truthy(repo.name)))]

\* SSHConfig and SyncSettings built from an empty mapping are the defaults.
Defaults == "defaults"
SettingsFromDict(data) == IF data = EmptyDict THEN Defaults ELSE data

\* load, lines 140-153, and _load_multiple_files: Config() when there is no
\* file, Config.from_dict of the merged data otherwise.
LoadedConfig ==
    IF load_config_files = <<>>
    THEN [version |-> "1.0", ssh |-> Defaults, sync |-> Defaults, repositories |-> <<>>]
    ELSE LET merged_data == merge_configs(load_config_files)
         IN  [version |-> merged_data.version,
              ssh |-> SettingsFromDict(merged_data.ssh),
              sync |-> SettingsFromDict(merged_data.sync),
              repositories |-> [i \in DOMAIN merged_data.repositories |->
                                   RepositoryFromDict(merged_data.repositories[i])]]

\* The config property, lines 181-193: loads when nothing is loaded.
Load ==
    /\ ~cfg.loaded
    /\ cfg' = [loaded |-> TRUE, version |-> LoadedConfig.version,
               ssh |-> LoadedConfig.ssh, sync |-> LoadedConfig.sync]
    /\ repositories' = LoadedConfig.repositories
    /\ UNCHANGED <<engine, history, addressing, config_dir, ccall>>

\* Lines 250-258, 300-306, 333-341: the repositories of repositories.yaml.
existing_repos ==
    IF config_dir[ReposFile].exists /\ config_dir[ReposFile].defines_repositories
    THEN config_dir[ReposFile].repositories
    ELSE <<>>

\* The file is written and the loaded configuration dropped
\* (self._config = None).
WriteRepositories(repos) ==
    /\ config_dir' = [config_dir EXCEPT ![ReposFile] = RepositoriesOnly(repos)]
    /\ cfg' = NoConfig
    /\ repositories' = <<>>

\* The repositories a caller saves.
SavedRepositories ==
    {CfgOrdered(name, enabled, 0) : name \in ConfigNames, enabled \in BOOLEAN}

\* save_repository, lines 242-280: the first entry of that name is replaced,
\* or the repository is appended with order = the number of entries.
SaveRepository ==
    /\ \E repo \in SavedRepositories :
          LET found == {i \in DOMAIN existing_repos : existing_repos[i].name = repo.name}
              first == CHOOSE i \in found : \A j \in found : i <= j
              added == [repo EXCEPT !.order = Len(existing_repos)]
          IN  IF found # {}
              THEN /\ WriteRepositories([existing_repos EXCEPT ![first] = to_dict(repo)])
                   /\ ccall' = [op |-> "save", name |-> repo.name, repo |-> <<repo>>,
                                ret |-> FALSE]
              ELSE /\ WriteRepositories(Append(existing_repos, to_dict(added)))
                   /\ ccall' = [op |-> "save", name |-> repo.name, repo |-> <<added>>,
                                ret |-> FALSE]
    /\ UNCHANGED <<engine, history, addressing>>

\* delete_repository, lines 282-322.
DeleteRepository ==
    /\ \E name \in RequestNames :
          LET kept == SelectSeq(existing_repos, LAMBDA r : r.name # name)
          IN  IF ~config_dir[ReposFile].exists \/ Len(kept) = Len(existing_repos)
              THEN /\ ccall' = [op |-> "delete", name |-> name, repo |-> <<>>, ret |-> FALSE]
                   /\ UNCHANGED <<config_dir, cfg, repositories>>
              ELSE /\ WriteRepositories(kept)
                   /\ ccall' = [op |-> "delete", name |-> name, repo |-> <<>>, ret |-> TRUE]
    /\ UNCHANGED <<engine, history, addressing>>

\* The index enumerate() gives the last occurrence of the name, 0-based.
LastIndex(ordered_names, name) ==
    (CHOOSE i \in DOMAIN ordered_names :
        /\ ordered_names[i] = name
        /\ \A j \in DOMAIN ordered_names : ordered_names[j] = name => j <= i) - 1

\* The entry of that name in the map.
Lookup(repo_map, name) ==
    repo_map[CHOOSE i \in DOMAIN repo_map : repo_map[i].name = name]

\* Lines 346-352: the entries named, in the order of the names, each with
\* order = its index (the dict is shared: a name listed twice gives the same
\* entry twice, with the last index).
Reordered(repo_map, ordered_names) ==
    LET known == SelectSeq(ordered_names,
                           LAMBDA name : \E i \in DOMAIN repo_map : repo_map[i].name = name)
    IN  [k \in DOMAIN known |->
            [Lookup(repo_map, known[k]) EXCEPT !.order = LastIndex(ordered_names, known[k])]]

RECURSIVE AppendRest(_, _, _)
\* Lines 354-358: the entries not named, at the end, each with order = the
\* length of the list it is appended to.
AppendRest(reordered, repo_map, ordered_names) ==
    IF repo_map = <<>> THEN reordered
    ELSE IF Head(repo_map).name \in Range(ordered_names)
    THEN AppendRest(reordered, Tail(repo_map), ordered_names)
    ELSE AppendRest(Append(reordered, [Head(repo_map) EXCEPT !.order = Len(reordered)]),
                    Tail(repo_map), ordered_names)

\* The lists of names a caller orders by: none, one name, both, one name
\* twice, a name that is not configured.
OrderedNames == {<<>>, <<"a">>, <<"b", "a">>, <<"a", "a">>, <<"x", "b">>}

\* reorder_repositories, lines 324-366.
ReorderRepositories ==
    /\ \E ordered_names \in OrderedNames :
          LET repo_map == PutAll(<<>>, existing_repos)
          IN  /\ WriteRepositories(AppendRest(Reordered(repo_map, ordered_names),
                                              repo_map, ordered_names))
              /\ ccall' = [op |-> "reorder", name |-> "none", repo |-> <<>>, ret |-> FALSE]
    /\ UNCHANGED <<engine, history, addressing>>

\* The values a file gives a global setting.
Versions == {Undefined, "2.0"}
SshSettings(file) == {Undefined, EmptyDict, IF file = 1 THEN "ssh1" ELSE "ssh3"}
SyncSettingsOf(file) == {Undefined, IF file = 1 THEN "sync1" ELSE "sync3"}

\* Two files, each there or not, defining the global settings or not; no
\* repositories.
ConfigGlobals ==
    \E f1 \in {NoFile} \cup {FileOf(v, s, y, <<>>) :
                                v \in Versions, s \in SshSettings(1), y \in SyncSettingsOf(1)},
       f3 \in {NoFile} \cup {FileOf(v, s, y, <<>>) :
                                v \in Versions, s \in SshSettings(3), y \in SyncSettingsOf(3)} :
        config_dir = <<f1, NoFile, f3>>

\* Repository a defined before or after repositories.yaml or not at all,
\* repositories.yaml missing, empty or holding a, b or an entry without a
\* name.
ConfigRepositories ==
    \E f1 \in {NoFile, RepositoriesOnly(<<Cfg("a", TRUE)>>)},
       f2 \in {NoFile} \cup {RepositoriesOnly(repos) :
                                repos \in {<<>>, <<Cfg("a", FALSE)>>,
                                           <<Cfg("b", TRUE), Cfg("a", FALSE)>>,
                                           <<Cfg("", TRUE), Cfg("b", FALSE)>>}},
       f3 \in {NoFile, RepositoriesOnly(<<Cfg("a", TRUE)>>)} :
        config_dir = <<f1, f2, f3>>

ConfigInit ==
    /\ Parked
    /\ NoHistory
    /\ NoAddressing
    /\ ConfigGlobals \/ ConfigRepositories
    /\ cfg = NoConfig
    /\ repositories = <<>>
    /\ ccall = NoConfigCall

ConfigNext ==
    \/ Load
    \/ SaveRepository
    \/ DeleteRepository
    \/ ReorderRepositories

ConfigSpec == ConfigInit /\ [][ConfigNext]_vars

\* ------------------------------------------------- mirror-cache addressing
\* _get_mirror_path joins the mirror base and f"{repo_name}.git" as paths
\* (sync.py 116-118), and _cleanup_stale_mirrors lists the base directory and
\* strips ".git" from the names of its directories (160-166).  A repository
\* name is any string (schema.py 42: name: str, not validated): here a
\* sequence of characters, "/" and "." among them.
NameChars == {"a", ".", "/"}
RepositoryNames == UNION {[1..n -> NameChars] : n \in 1..MaxNameLen}

\* ".git"
GitSuffix == <<".", "g", "i", "t">>

\* A path component pathlib keeps: not empty and not ".".
Component(c) == IF c = <<>> \/ c = <<".">> THEN <<>> ELSE <<c>>

RECURSIVE SplitPath(_, _)
\* The components of a path string, the one being read in `current`: pathlib
\* splits at "/" and drops empty components and "." (not "..").
SplitPath(s, current) ==
    IF s = <<>> THEN Component(current)
    ELSE IF Head(s) = "/" THEN Component(current) \o SplitPath(Tail(s), <<>>)
    ELSE SplitPath(Tail(s), Append(current, Head(s)))

\* _get_mirror_path, line 118: mirror_base / f"{repo_name}.git", as the
\* components below the mirror base; joining an absolute path drops the base.
get_mirror_path(repo_name) ==
    LET file_name == repo_name \o GitSuffix
    IN  [absolute |-> Head(file_name) = "/", parts |-> SplitPath(file_name, <<>>)]

\* The path is below the mirror base.
Inside(path) == ~path.absolute /\ path.parts[1] # <<".", ".">>

\* mirror_base.iterdir(): the names of the entries of the base directory.
BaseEntries == {d.path.parts[1] : d \in {x \in cache_dirs : Inside(x.path)}}

\* item.name.endswith(".git")
EndsWithGit(item_name) ==
    /\ Len(item_name) >= Len(GitSuffix)
    /\ SubSeq(item_name, Len(item_name) - Len(GitSuffix) + 1, Len(item_name)) = GitSuffix

\* Lines 161-166: item.name[:-4] of every directory whose name ends in ".git".
DerivedNames ==
    {SubSeq(item_name, 1, Len(item_name) - Len(GitSuffix)) :
        item_name \in {e \in BaseEntries : EndsWithGit(e)}}

\* _ensure_mirror asks for the path of a configured repository and makes the
\* mirror there (or finds one there).
AddressMirror ==
    /\ ~listed
    /\ \E i \in DOMAIN cache_names :
          /\ \A d \in cache_dirs : d.name # cache_names[i]
          /\ cache_dirs' = cache_dirs \cup
                {[path |-> get_mirror_path(cache_names[i]), name |-> cache_names[i]]}
    /\ UNCHANGED <<engine, repositories, history, disk, cache_names, existing_mirrors, listed>>

\* _cleanup_stale_mirrors, lines 160-166: the existing mirrors by name.
ListMirrors ==
    /\ ~listed
    /\ existing_mirrors' = DerivedNames
    /\ listed' = TRUE
    /\ UNCHANGED <<engine, repositories, history, disk, cache_names, cache_dirs>>

\* Two repositories of distinct names.
AddressingInit ==
    /\ Parked
    /\ repositories = <<>>
    /\ NoHistory
    /\ NoDisk
    /\ cache_names \in {<<n1, n2>> : n1 \in RepositoryNames, n2 \in RepositoryNames}
    /\ cache_names[1] # cache_names[2]
    /\ cache_dirs = {}
    /\ existing_mirrors = {}
    /\ listed = FALSE

AddressingNext ==
    \/ AddressMirror
    \/ ListMirrors

AddressingSpec == AddressingInit /\ [][AddressingNext]_vars

\* ---------------------------------------------------------------- properties
\* The candidate at index k has been through its loop iteration.
Processed(k) ==
    /\ k \in DOMAIN branches_to_sync
    /\ \/ pc = "branches" /\ k < idx
       \/ pc = "tags"
       \/ pc = "done" /\ aborted_at = "none"

\* The push calls logged for candidate index k of the branch loop.
BranchPushesAt(k) ==
    {n \in DOMAIN pushLog : pushLog[n].kind = "heads" /\ pushLog[n].at = k}

\* The push calls logged for branch b.
BranchPushesOf(b) ==
    {n \in DOMAIN pushLog : pushLog[n].kind = "heads" /\ pushLog[n].name = b}

\* C1: no history is discarded at the target.  At every point of a run, also
\* when other writers changed the target after the engine's fetch, every
\* branch the target had when the run started still exists and still reaches
\* the commit it pointed to, and every tag it had still points to the same
\* commit.  A run starts from every target state, so the same holds along
\* any sequence of runs.
C1_NoHistoryDiscarded ==
    /\ \A b \in Branches :
          tgtAtStart.heads[b] # NoHash => Reaches(tgtAtStart.heads[b], tgt.heads[b])
    /\ \A t \in Tags :
          tgtAtStart.tags[t] # NoHash => tgt.tags[t] = tgtAtStart.tags[t]

\* A finished run in which another writer moved a branch the engine had
\* fetched, and the engine's push of that branch was then rejected.
C1_Witness ==
    /\ pc = "done"
    /\ envSteps > 0
    /\ \E n \in DOMAIN pushLog :
          /\ pushLog[n].kind = "heads"
          /\ pushLog[n].outcome = RejectedMsg
          /\ fetched[pushLog[n].name] # tgt.heads[pushLog[n].name]
          /\ tgt.heads[pushLog[n].name] # src.heads[pushLog[n].name]

\* C2: the engine never force-pushes.  Every push call of a run, for a new
\* branch, for a fast-forward and for a tag, carries force = FALSE.
C2_NeverForce ==
    \A n \in DOMAIN pushLog : pushLog[n].force = FALSE

\* A finished run that pushed a branch the target did not have, a branch the
\* target had behind the source, and a tag.
C2_Witness ==
    /\ pc = "done"
    /\ \E n \in DOMAIN pushLog :
          pushLog[n].kind = "heads" /\ fetched[pushLog[n].name] = NoHash
    /\ \E n \in DOMAIN pushLog :
          /\ pushLog[n].kind = "heads"
          /\ fetched[pushLog[n].name] \notin {NoHash, src.heads[pushLog[n].name]}
    /\ \E n \in DOMAIN pushLog : pushLog[n].kind = "tags"

\* The target ref of branch b, as fetched, exists and is not an ancestor of
\* the source ref.
DivergedAtFetch(b) ==
    /\ src.heads[b] # NoHash
    /\ fetched[b] # NoHash
    /\ ~Reaches(fetched[b], src.heads[b])

FastForwardAtFetch(b) ==
    /\ src.heads[b] # NoHash
    /\ fetched[b] # NoHash
    /\ Reaches(fetched[b], src.heads[b])

\* How often x occurs in the sequence q.
Count(q, x) == Cardinality({n \in DOMAIN q : q[n] = x})

AbsentAtTarget(k) ==
    LET b == branches_to_sync[k]
    IN  /\ src.heads[b] # NoHash
        /\ fetched[b] = NoHash
        /\ \A n \in BranchPushesOf(b) :
              pushLog[n].at < k => pushLog[n].outcome # "ok"

\* The record a push call of candidate k leaves in the result: synced when it
\* succeeded, skipped with the push's own message otherwise.
PushRecorded(k) ==
    \A n \in BranchPushesAt(k) :
        LET b == branches_to_sync[k]
        IN  IF pushLog[n].outcome = "ok"
            THEN b \in Range(result.branches_synced)
            ELSE <<b, pushLog[n].outcome>> \in Range(result.branches_skipped)

C6_DryRunPushesNothing ==
    dry_run =>
        /\ pushLog = <<>>
        /\ envSteps = 0 => tgt = tgtAtStart

\* A finished dry run that recorded branches and a tag as synced while the
\* target still lacks them.
C6_Witness ==
    /\ pc = "done"
    /\ dry_run
    /\ result.success
    /\ result.tags_synced # <<>>
    /\ \E b \in Range(result.branches_synced) : tgt.heads[b] # src.heads[b]
    /\ \E t \in Range(result.tags_synced) : tgt.tags[t] # src.tags[t]

\* The classification predicted from the fetched state alone: a candidate is
\* synced when it is in the source and its target ref is missing or an
\* ancestor, skipped otherwise.
Pushable(b) ==
    /\ src.heads[b] # NoHash
    /\ fetched[b] = NoHash \/ Reaches(fetched[b], src.heads[b])

PredictedSynced == SelectSeq(branches_to_sync, Pushable)

PredictedSkipped ==
    LET sk == SelectSeq(branches_to_sync, LAMBDA b : ~Pushable(b))
    IN  [n \in DOMAIN sk |->
            <<sk[n], IF src.heads[sk[n]] = NoHash THEN NotFoundReason ELSE DivergedReason>>]

Names(q) == [n \in DOMAIN q |-> q[n][1]]

C8_SuccessIffCompleted ==
    /\ pc # "done" => ~result.success
    /\ pc = "done" => (result.success <=> aborted_at = "none")

\* A successful run with a skipped branch, a failed branch push and a failed
\* tag push.
C8_Witness ==
    /\ pc = "done"
    /\ result.success
    /\ \E e \in Range(result.branches_skipped) : e[2] = NotFoundReason
    /\ \E e \in Range(result.branches_skipped) : e[2] = TransportMsg
    /\ result.tags_failed # <<>>

\* The messages a failure of the given stage leaves in error.
StageMessages(stage) ==
    IF stage = "keys" THEN {KeyMsg}
    ELSE IF stage = "tempdir" THEN {MkdirMsg}
    ELSE IF stage = "clone" THEN {CloneMsg, FetchMsg, CopyMsg}
    ELSE IF stage = "remote" THEN {RemoteMsg}
    ELSE IF stage = "fetch" THEN {FetchMsg}
    ELSE {}

\* C9: when a structural stage fails (key resolution, temp dir, working
\* clone, target remote, target fetch) the run ends there: no push is issued,
\* the target is untouched, success is false, error holds the failure's
\* message and the four result lists are empty.
C9_StructuralFailureAborts ==
    aborted_at # "none" =>
        /\ pc = "done"
        /\ pushLog = <<>>
        /\ tgt = tgtAtStart
        /\ ~result.success
        /\ result.error \in StageMessages(aborted_at)
        /\ result.branches_synced = <<>>
        /\ result.branches_skipped = <<>>
        /\ result.tags_synced = <<>>
        /\ result.tags_failed = <<>>

\* A run whose fetch of the target failed although the source had a branch
\* and a tag the target lacked.
C9_Witness ==
    /\ aborted_at = "fetch"
    /\ temp_dir = "removed"
    /\ \E b \in Branches : src.heads[b] # NoHash /\ tgt.heads[b] = NoHash
    /\ \E t \in Tags : src.tags[t] # NoHash /\ tgt.tags[t] = NoHash

\* Some push call of the branch loop raised.
BranchRaised ==
    \E n \in DOMAIN pushLog :
        pushLog[n].kind = "heads" /\ pushLog[n].outcome = RaisedMsg

\* C10: an exception raised while one candidate branch is evaluated is
\* recorded as a skip of that branch with the exception's message and aborts
\* nothing: the loop goes on with the next candidate, every candidate ends
\* up evaluated, and the run goes through the tag stage to a successful end.
C10_BranchExceptionContained ==
    BranchRaised =>
        /\ aborted_at = "none"
        /\ \A n \in DOMAIN pushLog :
              (pushLog[n].kind = "heads" /\ pushLog[n].outcome = RaisedMsg) =>
                  <<pushLog[n].name, RaisedMsg>> \in Range(result.branches_skipped)
        /\ pc = "branches" =>
              Len(result.branches_synced) + Len(result.branches_skipped) = idx - 1
        /\ pc \in {"tags", "done"} =>
              Len(result.branches_synced) + Len(result.branches_skipped)
                  = Len(branches_to_sync)
        /\ pc = "done" =>
              /\ result.success
              /\ Len(result.tags_synced) + Len(result.tags_failed) = Len(tags)
              /\ repo_config.sync_tags => tags = get_tags(CloneOf(src), "ok")

\* A finished run in which the push of the first candidate raised, the second
\* candidate was pushed and a tag was pushed after it.
C10_Witness ==
    /\ pc = "done"
    /\ Len(pushLog) >= 3
    /\ pushLog[1].kind = "heads" /\ pushLog[1].outcome = RaisedMsg /\ pushLog[1].at = 1
    /\ pushLog[2].kind = "heads" /\ pushLog[2].outcome = "ok" /\ pushLog[2].at = 2
    /\ pushLog[3].kind = "tags" /\ pushLog[3].outcome = "ok"

\* C12: with cleanup_after_sync set, a run that created its temporary
\* directory has put it through rmtree by the time it returns, whether the
\* run completed or failed at any stage: the directory is gone, or the removal
\* itself failed and the directory is left behind.  A failed removal raises
\* nothing and leaves no trace in the result: success and error are what the
\* stages made them.  While the run is going on its directory stays in place.
C12_TempDirRemoved ==
    /\ pc # "done" => temp_dir \in {"none", "present"}
    /\ (pc = "done" /\ settings.cleanup_after_sync) =>
          /\ temp_dir \in {"none", "removed", "rm_failed"}
          /\ temp_dir = "none" <=> aborted_at \in {"keys", "tempdir"}
          /\ result.success <=> aborted_at = "none"
          /\ IF aborted_at = "none"
             THEN result.error = NoError
             ELSE result.error \in StageMessages(aborted_at)

\* A completed run that pushed a branch and whose removal of the temporary
\* directory failed.
C12_Witness ==
    /\ pc = "done"
    /\ settings.cleanup_after_sync
    /\ temp_dir = "rm_failed"
    /\ result.success
    /\ result.branches_synced # <<>>
    /\ pushLog # <<>>

\* C13: with the mirror cache disabled no step of sync_repository creates,
\* changes or deletes the repository's mirror entry, whatever the outcome of
\* the step.
C13_MirrorUntouchedWhenDisabled ==
    [][~settings.enable_mirror_cache => mirror' = mirror]_vars

\* A completed run with the cache disabled that went past a mirror entry left
\* by an earlier sync, which no longer matches the source.
C13_Witness ==
    /\ pc = "done"
    /\ ~settings.enable_mirror_cache
    /\ result.success
    /\ mirror.exists
    /\ mirror.heads # src.heads

\* The push calls logged for tag t.
TagPushesOf(t) ==
    {n \in DOMAIN pushLog : pushLog[n].kind = "tags" /\ pushLog[n].name = t}

\* The tags the source has.
SourceTags == {t \in Tags : src.tags[t] # NoHash}

\* Tag t is in exactly one of the two tag lists, once.
TagRecordedOnce(t) ==
    Count(result.tags_synced, t) + Count(Names(result.tags_failed), t) = 1

\* Without tag sync no tag push is issued and both tag lists stay empty.
NoTagSync ==
    ~repo_config.sync_tags =>
        /\ \A t \in Tags : TagPushesOf(t) = {}
        /\ result.tags_synced = <<>>
        /\ result.tags_failed = <<>>

\* C17 as stated: in a completed run with sync_tags set every tag of the
\* source has been pushed, once and without force, whatever the target holds
\* for it, and is in tags_synced if the push succeeded and in tags_failed
\* with the reason otherwise; without sync_tags there is no tag push and both
\* lists are empty.
C17_EveryTagPushed ==
    /\ (pc = "done" /\ aborted_at = "none" /\ repo_config.sync_tags) =>
          \A t \in SourceTags :
              /\ Cardinality(TagPushesOf(t)) = 1
              /\ TagRecordedOnce(t)
              /\ \A n \in TagPushesOf(t) :
                    /\ ~pushLog[n].force
                    /\ IF pushLog[n].outcome = "ok"
                       THEN t \in Range(result.tags_synced)
                       ELSE <<t, pushLog[n].outcome>> \in Range(result.tags_failed)
    /\ NoTagSync

\* C17, amended: the same for a non-dry run; a dry run issues no tag push and
\* records every tag of the source in tags_synced.
C17_EveryTagPushedUnlessDryRun ==
    /\ (pc = "done" /\ aborted_at = "none" /\ repo_config.sync_tags) =>
          \A t \in SourceTags :
                /\ TagRecordedOnce(t)
                /\ Cardinality(TagPushesOf(t)) = IF dry_run THEN 0 ELSE 1
                /\ dry_run => t \in Range(result.tags_synced)
                /\ \A n \in TagPushesOf(t) :
                      /\ ~pushLog[n].force
                      /\ IF pushLog[n].outcome = "ok"
                         THEN t \in Range(result.tags_synced)
                         ELSE <<t, pushLog[n].outcome>> \in Range(result.tags_failed)
    /\ NoTagSync

\* A completed non-dry run that pushed a tag the target holds at another
\* commit, which the target rejected.
C17_Witness ==
    /\ pc = "done"
    /\ aborted_at = "none"
    /\ ~dry_run
    /\ \E t \in SourceTags :
          /\ tgt.tags[t] # NoHash
          /\ ~Reaches(tgt.tags[t], src.tags[t])
          /\ <<t, RejectedMsg>> \in Range(result.tags_failed)
          /\ Cardinality(TagPushesOf(t)) = 1

\* The branches the source has.
SourceBranches == {b \in Branches : src.heads[b] # NoHash}

\* The number of candidates that have been through their loop iteration.
Evaluated == Len(result.branches_synced) + Len(result.branches_skipped)

SelectedNames == [n \in DOMAIN repo_configs |-> repo_configs[n].name]

\* C11: a failed repository sync stops nothing.  Every call of
\* sync_repository ends with a result and no exception leaves it, so that
\* while sync_all loops there is one result for each configuration gone
\* through, and the summary it returns holds exactly one result for each
\* selected configuration, in order, the failed ones counted in failed and
\* the others in successful (a name asked for twice is selected twice).
C11_FailureContained ==
    /\ bpc = "loop" =>
          /\ escaped = "none"
          /\ Len(results) = bi - 1
          /\ bi <= Len(repo_configs) + 1
    /\ summary.returned =>
          /\ escaped = "none"
          /\ Len(summary.results) = Len(repo_configs)
          /\ \A n \in DOMAIN repo_configs :
                summary.results[n].repository = repo_configs[n].name
          /\ summary.total = Len(repo_configs)
          /\ summary.successful + summary.failed = summary.total
          /\ summary.failed =
                Cardinality({n \in DOMAIN summary.results : ~summary.results[n].success})

\* A returned summary whose first repository failed and whose second one was
\* synced after it, a branch pushed.
C11_Witness ==
    /\ summary.returned
    /\ Len(summary.results) = 2
    /\ ~summary.results[1].success
    /\ summary.results[1].error # NoError
    /\ summary.results[2].success
    /\ summary.results[2].branches_synced # <<>>
    /\ summary.results[1].repository # summary.results[2].repository
    /\ ~dry_run

\* The step is a return of _cleanup_stale_mirrors.
CleanupReturns == bpc = "gc" /\ bpc' = "loop" /\ settings.enable_mirror_cache

\* C14 as stated: when _cleanup_stale_mirrors(active) returns, the mirrors in
\* the cache directory are those that were there before and are named in
\* active.
C14_ExactlyActiveKept ==
    [][CleanupReturns =>
          ExistingMirrors(mirror_cache') =
              ExistingMirrors(mirror_cache) \cap Range(SelectedNames)]_vars

\* C14, amended: when _cleanup_stale_mirrors(active) returns, the mirrors in
\* the cache directory are those that were there before and are named in
\* active, together with those not named in active whose removal failed;
\* every entry that is left, mirror or not, is as it was.
C14_ActiveKeptStaleRemovedUnlessFailed ==
    [][CleanupReturns =>
          /\ ExistingMirrors(mirror_cache') =
                (ExistingMirrors(mirror_cache) \cap Range(SelectedNames)) \cup gc_failed'
          /\ gc_failed' \subseteq ExistingMirrors(mirror_cache) \ Range(SelectedNames)
          /\ \A e \in EntryNames :
                mirror_cache'[e] # mirror_cache[e] =>
                    /\ mirror_cache[e].kind = "dir"
                    /\ e[2] = DotGit
                    /\ e[1] \notin Range(SelectedNames)
                    /\ mirror_cache'[e] = NoEntry]_vars

\* After a cleanup: the mirror of a selected repository is kept, a stale
\* mirror is gone, another stale entry is left because its removal failed,
\* and a directory that is no mirror is in place.
C14_Witness ==
    /\ bpc = "loop"
    /\ settings.enable_mirror_cache
    /\ "a" \in Range(SelectedNames)
    /\ mirror_cache[MirrorPath("a")].kind = "dir"
    /\ "b" \notin Range(SelectedNames)
    /\ mirror_cache[MirrorPath("b")].kind = "absent"
    /\ gc_failed = {"old"}
    /\ mirror_cache[MirrorPath("old")].kind = "dir"
    /\ mirror_cache[<<"notes", "">>].kind = "dir"
    /\ results = <<>>

\* The names of the configured repositories, enabled or not.
ConfiguredNames == {repositories[n].name : n \in DOMAIN repositories}

\* C15 as stated: no step of a sync command, given names or not, deletes the
\* mirror of a repository that is in the configuration.
C15_ConfiguredMirrorsKept ==
    [][\A n \in ConfiguredNames :
          mirror_cache[MirrorPath(n)].kind = "dir" =>
              mirror_cache'[MirrorPath(n)].kind = "dir"]_vars

\* The repositories of the returned summary, in order.
SummaryNames == [n \in DOMAIN summary.results |-> summary.results[n].repository]

\* C19: with names given, the selection is the named repositories that are
\* configured, enabled or not, in the order asked for, a name that is not
\* configured being left out; with no name given it is the enabled
\* repositories in the configuration's order.  The selected entries are the
\* configuration's own, and the returned summary has results for exactly them.
C19_Selection ==
    (bpc \in {"gc", "loop", "summary"} \/ summary.returned) =>
        /\ requested # <<>> =>
              SelectedNames = SelectSeq(requested, LAMBDA x : x \in ConfiguredNames)
        /\ requested = <<>> =>
              repo_configs = SelectSeq(repositories, LAMBDA r : r.enabled)
        /\ Range(repo_configs) \subseteq Range(repositories)
        /\ summary.returned => SummaryNames = SelectedNames

\* A returned summary for names of which one is not configured and the other
\* is a disabled repository, which was synced.
C19_Witness ==
    /\ summary.returned
    /\ Len(requested) = 2
    /\ \E n \in DOMAIN requested : requested[n] \notin ConfiguredNames
    /\ Len(summary.results) = 1
    /\ \E r \in Range(repositories) :
          r.name = summary.results[1].repository /\ ~r.enabled
    /\ summary.results[1].success

\* Some result of the summary has success = false.
SomeRepositoryFailed ==
    \E n \in DOMAIN summary.results : ~summary.results[n].success

\* C20 as stated: the command's exit status is non-zero exactly when a
\* repository of the batch failed or a GitSyncError left the batch.
C20_NonZeroIffFailedOrGitSyncError ==
    bpc = "exited" =>
        (exit_code # 0 <=> (summary.failed > 0 \/ escaped = "ConfigurationError"))

\* C20, amended: the command's exit status is non-zero exactly when a
\* repository of the batch failed or an exception left the batch, a
\* GitSyncError through the command's handler and any other one uncaught.  A
\* batch whose repositories all have success = true, empty batch included,
\* exits with zero whatever branches were skipped and tags failed.  There is
\* no exit status before the command ends.
C20_NonZeroIffFailedOrException ==
    /\ bpc # "exited" => exit_code = NoExit
    /\ bpc = "exited" =>
          /\ exit_code \in {0, 1}
          /\ exit_code # 0 <=> (summary.failed > 0 \/ escaped # "none")
          /\ summary.failed > 0 <=> SomeRepositoryFailed
          /\ (summary.returned /\ ~SomeRepositoryFailed) => exit_code = 0

\* A command that exited with zero after a batch in which a repository was
\* synced with a branch skipped and a tag failed.
C20_Witness ==
    /\ bpc = "exited"
    /\ exit_code = 0
    /\ summary.total >= 1
    /\ \E n \in DOMAIN summary.results :
          /\ summary.results[n].success
          /\ summary.results[n].branches_skipped # <<>>
          /\ summary.results[n].tags_failed # <<>>

\* The previous command returned a summary with a result for repository `name`.
PrevSynced(name) ==
    /\ prev.returned
    /\ \E j \in DOMAIN prev.results : prev.results[j].repository = name

\* A result whose run completed with no push failing to reach the target or
\* raising.
Clean(r) ==
    /\ r.success
    /\ \A e \in Range(r.branches_skipped) \cup Range(r.tags_failed) :
          e[2] \notin {TransportMsg, RaisedMsg}

\* The previous results of repository `name` are all clean.
PrevClean(name) ==
    \A j \in DOMAIN prev.results :
        prev.results[j].repository = name => Clean(prev.results[j])

\* The previous results of repository `name` report no failed tag.
PrevNoTagsFailed(name) ==
    \A j \in DOMAIN prev.results :
        prev.results[j].repository = name => prev.results[j].tags_failed = <<>>

\* The target of repository `name` is as the previous command left it.
TargetAsLeft(name) ==
    /\ world[name].tgt = prev.world[name].tgt
    /\ (bpc = "loop" /\ pc # "parked" /\ repo_configs[bi].name = name) =>
          tgt = prev.world[name].tgt

NoTagsFailed(r) == r.tags_failed = <<>>

C21_AscendingOrderingIndex ==
    (bpc \in {"loop", "summary"} /\ requested = <<>>) =>
        \A i \in DOMAIN results, j \in DOMAIN results :
            i < j => repo_configs[i].order <= repo_configs[j].order

\* sync_all has called sync_repository for the configuration at bi and has
\* not yet appended its result.
InCall == bpc = "loop" /\ pc # "parked"

\* sync_all has run past its cleanup stage: it is in its loop, or it has
\* returned a summary of at least one result.
PastCleanup == bpc = "loop" \/ (bpc = "summary" /\ repo_configs # <<>>)

\* C22 (as stated): whenever mirror caching is enabled, every invocation of
\* sync_all has run the cleanup of stale mirrors by the time it returns its
\* summary, whatever was selected, an empty selection included.
C22_CleanupEveryInvocation ==
    (settings.enable_mirror_cache /\ bpc = "summary") => Len(gc_calls) = 1

\* C22 (amended): whenever mirror caching is enabled, an invocation of
\* sync_all that selected at least one configuration runs the cleanup exactly
\* once, with the names of the selected configurations, before its first
\* call of sync_repository (no call is in progress and no result exists
\* without it); an invocation that selected nothing returns the empty summary
\* without running the cleanup.
C22_CleanupBeforeFirstSyncUnlessEmpty ==
    settings.enable_mirror_cache =>
        /\ PastCleanup => gc_calls = <<SelectedNames>>
        /\ (InCall \/ results # <<>>) => Len(gc_calls) = 1
        /\ (bpc = "summary" /\ repo_configs = <<>>) =>
              gc_calls = <<>> /\ summary = SyncSummaryOf(<<>>)

\* The first call of sync_repository of an invocation is in progress, the
\* cleanup having removed the mirror of a repository that was not selected.
C22_Witness ==
    /\ settings.enable_mirror_cache
    /\ InCall
    /\ bi = 1
    /\ gc_calls = <<SelectedNames>>
    /\ "b" \in ConfiguredNames
    /\ "b" \notin Range(SelectedNames)
    /\ mirror_cache[MirrorPath("old")].kind = "absent"

\* C23: under dry run sync_all deletes no mirror-cache entry: in no step of a
\* command run with dry_run = TRUE does an entry of the mirror-cache
\* directory that is on disk cease to be there.
C23_DryRunDeletesNoMirror ==
    [][dry_run =>
          \A e \in EntryNames :
              mirror_cache[e].kind # "absent" =>
                  mirror_cache'[e].kind = mirror_cache[e].kind]_vars

\* C24: no two invocations of sync_repository ever use the same temporary
\* working directory: the directory _create_temp_dir returns to an
\* invocation has a name it has returned to no invocation before.
C24_TempDirNeverReused ==
    [][(pc = "tempdir" /\ pc' = "clone") => temp_name' \notin temp_used]_vars

\* The stages of sync_repository after the working clone was obtained.
AfterCopy == pc \in {"remote", "fetch", "branches", "tags"}

\* C25: with mirror caching enabled, no step of the stages after the copy
\* (adding the target remote, fetching the target, pushing branches and tags,
\* and the cleanup that ends them) changes the mirror entry; the mirror never
\* has a remote named target nor remote-tracking refs of it, neither the
\* entry in use nor any entry of the cache directory; and while a call of
\* sync_repository is under way no entry of the cache directory is written
\* other than by that call.
C25_MirrorIsolated ==
    [][settings.enable_mirror_cache =>
          /\ AfterCopy => mirror' = mirror /\ mirror_cache' = mirror_cache
          /\ ~mirror'.hasTarget /\ mirror'.tracking = NoRefs.heads
          /\ \A e \in EntryNames :
                ~mirror_cache'[e].hasTarget /\ mirror_cache'[e].tracking = NoRefs.heads
          /\ (InCall /\ pc # "done") => mirror_cache' = mirror_cache]_vars

\* A call in a batch, working on a copy of its mirror, has added the target
\* remote, fetched the target and pushed a branch.
C25_Witness ==
    /\ settings.enable_mirror_cache
    /\ bpc = "loop"
    /\ pc = "tags"
    /\ mirror.exists
    /\ clone.hasTarget
    /\ clone.tracking # NoRefs.heads
    /\ \E n \in DOMAIN pushLog : pushLog[n].outcome = "ok"

\* C26: _ensure_mirror performs a mirror clone exactly when the entry does
\* not exist and a fetch, never a clone, when it does, and a fetch leaves the
\* entry in place with its origin; once a call of sync_repository with
\* caching enabled has ended in success the entry exists; and an entry of the
\* cache directory that is a directory stays one in every step but the
\* cleanup of stale mirrors.
C26_CloneOnceThenFetch ==
    [][/\ (pc = "clone" /\ UseMirror) =>
             /\ mirror_op' = IF mirror.exists THEN "fetch" ELSE "clone"
             /\ mirror.exists => mirror'.exists /\ mirror'.origin = mirror.origin
             /\ ~mirror.exists => mirror' \in {mirror, MirrorClone(src)}
       /\ (pc # "parked" /\ pc' # "parked" /\ mirror.exists) => mirror'.exists
       /\ (UseMirror /\ pc' = "done" /\ result'.success) => mirror'.exists
       /\ \A e \in EntryNames :
             (mirror_cache[e].kind = "dir" /\ mirror_cache'[e].kind # "dir") => bpc = "gc"
       /\ (bpc = "loop" /\ pc = "done" /\ UseMirror /\ result.success) =>
             mirror_cache'[MirrorPath(repo_configs[bi].name)].kind = "dir"]_vars

\* The second command of a row syncs a repository whose mirror the first one
\* cloned: its _ensure_mirror has fetched into the entry and the call has
\* gone on.
C26_Witness ==
    /\ invocations = 2
    /\ bpc = "loop"
    /\ pc = "remote"
    /\ mirror_op = "fetch"
    /\ mirror.exists
    /\ \E n \in DOMAIN prev.results : prev.results[n].success

\* C27: the mirror cache is transparent: whatever syncs and configuration
\* changes came before, a change of the source URL included, the working
\* clone a sync obtains through the mirror cache holds the branches, tags and
\* commit ids of the repository at the source URL configured now, as a
\* direct clone of that URL does.
C27_CacheTransparent ==
    (clone.exists /\ pc \in {"remote", "fetch", "branches", "tags"}) =>
        clone.heads = src.heads /\ clone.tags = src.tags

\* The ancestry check of the iteration this step makes was called (both
\* hashes found) and its command did not exit with success.
AncestryCheckFails ==
    /\ pc = "branches"
    /\ \E q \in {"exit", "raise"} : <<idx, "ancestor", q>> \in queryLog' \ queryLog

\* C28: is_ancestor is true only when its command ran and exited with
\* success; and an iteration of the branch loop whose ancestry check fails,
\* by a failing exit or by an exception, with the target ref found, issues no
\* push, leaves the target as it is, records the branch in branches_skipped
\* (with the diverged-history reason) and not in branches_synced, and the
\* loop goes on, with and without dry run.
C28_AncestryFailureSkips ==
    [][/\ \A a \in Commits, d \in Commits, q \in {"ok", "exit", "raise"} :
             is_ancestor(a, d, q) => q = "ok" /\ Reaches(a, d)
       /\ AncestryCheckFails =>
             /\ pushLog' = pushLog
             /\ tgt' = tgt
             /\ result'.branches_synced = result.branches_synced
             /\ result'.branches_skipped =
                   Append(result.branches_skipped,
                          <<branches_to_sync[idx], DivergedReason>>)
             /\ idx' = idx + 1
             /\ pc' = "branches"]_vars

\* A non-dry run that is complete although the ancestry check of main, which
\* the target holds one commit behind the source, failed: main is skipped as
\* diverged, dev is pushed.
C28_Witness ==
    /\ pc = "done"
    /\ result.success
    /\ ~dry_run
    /\ tgtAtStart.heads["main"] = 1
    /\ src.heads["main"] = 2
    /\ \E k \in DOMAIN branches_to_sync, q \in {"exit", "raise"} :
          /\ branches_to_sync[k] = "main"
          /\ <<k, "ancestor", q>> \in queryLog
          /\ <<k, "target", "ok">> \in queryLog
    /\ <<"main", DivergedReason>> \in Range(result.branches_skipped)
    /\ "dev" \in Range(result.branches_synced)
    /\ tgt.heads["main"] = 1

\* A non-dry run with an explicit branch list that skipped a branch the source
\* does not have and pushed another one.
C29_Witness ==
    /\ pc = "done"
    /\ result.success
    /\ ~dry_run
    /\ repo_config.sync_branches # <<>>
    /\ \E k \in DOMAIN branches_to_sync :
          /\ src.heads[branches_to_sync[k]] = NoHash
          /\ <<branches_to_sync[k], NotFoundReason>> \in Range(result.branches_skipped)
          /\ BranchPushesAt(k) = {}
    /\ \E n \in DOMAIN pushLog : pushLog[n].kind = "heads" /\ pushLog[n].outcome = "ok"

\* C29: an iteration of the branch loop for a candidate of the explicit
\* branch list that has no refs/heads/<branch> in the working clone appends
\* the branch to branches_skipped with the reason "not found in source",
\* looks up no target ref, makes no ancestry check, issues no push and
\* changes nothing at the target, and the loop goes on.
C29_NotFoundInSource ==
    [][(/\ pc = "branches"
        /\ idx' = idx + 1
        /\ repo_config.sync_branches # <<>>
        /\ clone.heads[branches_to_sync[idx]] = NoHash) =>
           /\ result'.branches_skipped =
                 Append(result.branches_skipped, <<branches_to_sync[idx], NotFoundReason>>)
           /\ result'.branches_synced = result.branches_synced
           /\ queryLog' = queryLog
           /\ ancestryLog' = ancestryLog
           /\ pushLog' = pushLog
           /\ tgt' = tgt
           /\ pc' = "branches"]_vars

\* The enumeration `what` ("branches" or "tags") was made and ended as q.
Enumerated(what, q) == <<0, what, q>> \in queryLog

\* C30 (as stated): a sync_repository whose branch or tag enumeration failed,
\* in whatever way, is complete at its end: success = TRUE and no error.
C30_EnumerationFailureNonFatal ==
    (/\ pc = "done"
     /\ \E what \in {"branches", "tags"}, q \in {"exit", "raise"} : Enumerated(what, q)) =>
        result.success /\ result.error = NoError

\* C30 (amended): an enumeration whose git command exits non-zero yields the
\* empty list: nothing is pushed or recorded for it, and the run goes on and
\* is complete at its end (success = TRUE, no error) unless an enumeration
\* raised; an enumeration that raises another exception ends the run with
\* success = FALSE and the exception's message.
C30_CommandFailureNonFatal ==
    /\ Enumerated("branches", "exit") =>
          /\ branches_to_sync = <<>>
          /\ result.branches_synced = <<>> /\ result.branches_skipped = <<>>
          /\ \A n \in DOMAIN pushLog : pushLog[n].kind # "heads"
          /\ aborted_at \in {"none", "list_tags"}
    /\ Enumerated("tags", "exit") =>
          /\ tags = <<>>
          /\ result.tags_synced = <<>> /\ result.tags_failed = <<>>
          /\ \A n \in DOMAIN pushLog : pushLog[n].kind # "tags"
          /\ aborted_at = "none"
    /\ (/\ pc = "done"
        /\ \E what \in {"branches", "tags"} : Enumerated(what, "exit")
        /\ \A what \in {"branches", "tags"} : ~Enumerated(what, "raise")) =>
          result.success /\ result.error = NoError
    /\ (\E what \in {"branches", "tags"} : Enumerated(what, "raise")) =>
          pc = "done" /\ ~result.success /\ result.error = QueryRaisedMsg

\* A complete non-dry run whose branch enumeration failed by a non-zero exit,
\* so that no branch was pushed, and whose tag enumeration worked: the tag
\* was pushed.
C30_Witness ==
    /\ pc = "done"
    /\ result.success
    /\ ~dry_run
    /\ Enumerated("branches", "exit")
    /\ Enumerated("tags", "ok")
    /\ result.tags_synced = <<"v1">>
    /\ tgt.heads = tgtAtStart.heads

\* C32: every result sync_repository returns has success = true if and only
\* if error is unset: never success together with a recorded error, never a
\* failure without one; and until the call returns a recorded error goes
\* with success = false.
C32_SuccessIffNoError ==
    /\ pc = "done" => (result.success <=> result.error = NoError)
    /\ result.error # NoError => ~result.success

\* A call that returned a failure whose error is the message of an exception
\* raised by the enumeration of the branches or of the tags.
C32_Witness ==
    /\ pc = "done"
    /\ ~result.success
    /\ result.error = QueryRaisedMsg
    /\ aborted_at \in {"list_branches", "list_tags"}

\* The elements of s at the positions in I, in the order of s.
Pick(s, I) ==
    LET F[n \in 0..Len(s)] ==
            IF n = 0 THEN <<>>
            ELSE IF n \in I THEN Append(F[n - 1], s[n]) ELSE F[n - 1]
    IN  F[Len(s)]

\* The branch names of a list of (branch, reason) pairs.
SkippedNames(skipped) == [n \in DOMAIN skipped |-> skipped[n][1]]

\* The positions of the candidate list split in two so that the synced list
\* is the candidates at the one part and the skipped names those at the
\* other, each in candidate order.
Partitions(candidates, synced, skipped) ==
    \E I \in SUBSET DOMAIN candidates :
        /\ Pick(candidates, I) = synced
        /\ Pick(candidates, DOMAIN candidates \ I) = SkippedNames(skipped)

\* C33: in a result with success = true, branches_synced and the names of
\* branches_skipped partition the candidate list: every occurrence of a
\* candidate is in exactly one of the two lists, once, and both lists are in
\* candidate order; while the branch loop runs the same holds of the
\* candidates it has gone through.
C33_BranchListsPartitionCandidates ==
    /\ (pc = "done" /\ result.success) =>
          Partitions(branches_to_sync, result.branches_synced, result.branches_skipped)
    /\ pc = "branches" =>
          Partitions(SubSeq(branches_to_sync, 1, idx - 1),
                     result.branches_synced, result.branches_skipped)

\* A successful non-dry run over a candidate list naming one branch twice:
\* the first occurrence was pushed, the second one failed in transport, so
\* the name is once in each list.
C33_Witness ==
    /\ pc = "done"
    /\ result.success
    /\ ~dry_run
    /\ Len(branches_to_sync) = 2
    /\ branches_to_sync[1] = branches_to_sync[2]
    /\ result.branches_synced = <<branches_to_sync[1]>>
    /\ SkippedNames(result.branches_skipped) = <<branches_to_sync[2]>>

\* C34: every summary sync_all returns has total = successful + failed =
\* the length of results = the number of selected configurations, successful
\* counting the results with success = true; the i-th result carries the
\* name of the i-th selected configuration; and no result is reused: each
\* call of sync_repository in the loop starts from a fresh, empty result.
C34_SummaryConsistent ==
    /\ summary.returned =>
          /\ summary.total = summary.successful + summary.failed
          /\ summary.total = Len(summary.results)
          /\ summary.total = Len(repo_configs)
          /\ summary.successful =
                Cardinality({n \in DOMAIN summary.results : summary.results[n].success})
          /\ \A n \in 1..summary.total :
                summary.results[n].repository = repo_configs[n].name
    /\ (bpc = "loop" /\ pc = "keys") => result = NewResult
    /\ bpc = "loop" =>
          \A n \in DOMAIN results : results[n].repository = repo_configs[n].name

\* A returned summary of two repositories of which the first was synced, a
\* branch pushed, and the second failed with empty lists.
C34_Witness ==
    /\ summary.returned
    /\ summary.total = 2
    /\ summary.successful = 1
    /\ summary.failed = 1
    /\ summary.results[1].success
    /\ summary.results[1].branches_synced # <<>>
    /\ ~summary.results[2].success
    /\ summary.results[2].branches_synced = <<>>
    /\ summary.results[1].repository # summary.results[2].repository

\* How many entries of the sequence of names are the name x.
Occurrences(names, x) == Cardinality({n \in DOMAIN names : names[n] = x})

\* C35: a repository whose enabled flag is false is synced by sync_all only
\* when it is named: without names no disabled configuration is selected or
\* gets a result; with names, every configured repository, disabled ones
\* included, is selected as many times as its name is listed, and the
\* returned summary holds that many results for it.
C35_DisabledOnlyWhenNamed ==
    /\ (requested = <<>> /\ bpc \in {"gc", "loop", "summary"}) =>
          /\ \A n \in DOMAIN repo_configs : repo_configs[n].enabled
          /\ \A r \in Range(repositories) :
                ~r.enabled => Occurrences(ActiveNames(repo_configs), r.name) = 0
    /\ (requested = <<>> /\ bpc = "loop") =>
          \A r \in Range(repositories), n \in DOMAIN results :
                ~r.enabled => results[n].repository # r.name
    /\ (requested # <<>> /\ bpc \in {"gc", "loop", "summary"}) =>
          \A r \in Range(repositories) :
                Occurrences(ActiveNames(repo_configs), r.name) = Occurrences(requested, r.name)
    /\ (requested # <<>> /\ summary.returned) =>
          \A r \in Range(repositories) :
                Cardinality({n \in DOMAIN summary.results :
                                summary.results[n].repository = r.name})
                    = Occurrences(requested, r.name)

\* A returned summary for a disabled repository named twice: it holds two
\* results of that repository, both of calls that pushed.
C35_Witness ==
    /\ summary.returned
    /\ ~dry_run
    /\ Len(requested) = 2
    /\ requested[1] = requested[2]
    /\ \E r \in Range(repositories) : r.name = requested[1] /\ ~r.enabled
    /\ Len(summary.results) = 2
    /\ \A n \in DOMAIN summary.results :
          /\ summary.results[n].repository = requested[1]
          /\ summary.results[n].success

\* The records a saved add_record took out of the history it found.
DroppedByAdd ==
    {r \in Range(hcall.before) : r \notin Range(history_file)}

\* C39: after any sequence of add_record, delete_record and clear_history
\* calls the stored history holds at most MAX_RECORDS records, newest first
\* (each record created after the one that follows it); an add_record drops
\* records only when the list it found was full, and then every record it
\* drops is older than every record it keeps, the new record being kept on top.
C39_HistoryBoundedNewestFirst ==
    /\ Len(history_file) <= MAX_RECORDS
    /\ \A n \in 1..(Len(history_file) - 1) :
          history_file[n].timestamp > history_file[n + 1].timestamp
    /\ (hcall.op = "add" /\ hcall.saved) =>
          /\ history_file # <<>>
          /\ history_file[1].timestamp = hclock
          /\ DroppedByAdd # {} <=> Len(hcall.before) = MAX_RECORDS
          /\ Cardinality(DroppedByAdd) <= 1
          /\ \A d \in DroppedByAdd, k \in Range(history_file) : d.timestamp < k.timestamp

\* An add_record that found a full history and dropped its oldest record.
C39_Witness ==
    /\ hcall.op = "add"
    /\ hcall.saved
    /\ Len(hcall.before) = MAX_RECORDS
    /\ Len(history_file) = MAX_RECORDS
    /\ hcall.before[MAX_RECORDS] \notin Range(history_file)

\* The records of the history the last call found that are of the repository.
RecordsOf(repository) ==
    SelectSeq(hcall.before, LAMBDA r : r.repository = repository)

\* C40: clear_history returns the number of records it cleared: given a
\* repository, the number of that repository's records it removed, all other
\* records kept; given none, the number of records the history held before
\* it was emptied.
C40_ClearReturnsCleared ==
    (hcall.op = "clear" /\ hcall.saved) =>
        IF hcall.arg # NoRepository
        THEN /\ hcall.ret = Len(RecordsOf(hcall.arg))
             /\ history_file = SelectSeq(hcall.before, LAMBDA r : r.repository # hcall.arg)
        ELSE /\ hcall.ret = Len(hcall.before)
             /\ history_file = <<>>

\* The data of the first file, in sorted order, that defines the key.
FirstDefining(key) ==
    LET defining == SelectSeq(load_config_files, LAMBDA f : f[key] # Undefined)
    IN  defining[1]

\* Some file defines the key.
Defined(key) == \E i \in DOMAIN load_config_files : load_config_files[i][key] # Undefined

\* The last definition, in sorted order of the files, of each repository
\* name, as a RepositoryConfig.
LastDefinition(name) ==
    LET all == SelectSeq(AllRepositories(load_config_files), LAMBDA r : r.name = name)
    IN  IF all = <<>> THEN <<>> ELSE <<RepositoryFromDict(all[Len(all)])>>

\* C36: the loaded configuration has each global setting (version, ssh,
\* sync) as the first file, in sorted order, that defines it gives it, and
\* for every repository name the last definition of that name in the files.
C36_FirstFileDefinesGlobals ==
    (cfg.loaded /\ load_config_files # <<>>) =>
        /\ Defined("version") => cfg.version = FirstDefining("version").version
        /\ Defined("ssh") => cfg.ssh = SettingsFromDict(FirstDefining("ssh").ssh)
        /\ Defined("sync") => cfg.sync = SettingsFromDict(FirstDefining("sync").sync)
        /\ \A name \in ConfigNames : get_repository(name) = LastDefinition(name)

Reloads == ~cfg.loaded /\ cfg'.loaded

\* C38: save_repository and delete_repository round-trip through the
\* configuration: the configuration loaded after save_repository(r) has r
\* under r.name; the one loaded after a delete_repository(name) that returned
\* True has nothing under name; and a delete_repository that returns False
\* changes nothing.
C38_SaveDeleteRoundTrip ==
    [][/\ (Reloads /\ ccall.op = "save") => get_repository(ccall.name)' = ccall.repo
       /\ (Reloads /\ ccall.op = "delete" /\ ccall.ret) => get_repository(ccall.name)' = <<>>
       /\ (ccall' # ccall /\ ccall'.op = "delete" /\ ~ccall'.ret) =>
             UNCHANGED <<config_dir, cfg, repositories>>]_vars

\* C31: mirror-cache addressing is deterministic and injective: the path of
\* a repository is the entry <name>.git of the mirror base, two distinct
\* names never get the same path, and the names _cleanup_stale_mirrors
\* derives from the entries of the directory are the names the mirrors were
\* made for.
C31_AddressingInjective ==
    /\ \A d \in cache_dirs : d.path = [absolute |-> FALSE, parts |-> <<d.name \o GitSuffix>>]
    /\ \A d1 \in cache_dirs, d2 \in cache_dirs : d1.name # d2.name => d1.path # d2.path
    /\ listed => existing_mirrors = {d.name : d \in cache_dirs}
====
